---- MODULE Spec2Model ----
(***************************************************************************)
(* Hortinha: the garden simulation engine of src/index.tsx (the App        *)
(* component of lines 630-1921).  React state and refs are the variables,  *)
(* every event handler / timer callback is one action, and the effects     *)
(* that React runs after the handler's render are part of that action.     *)
(* Timer delays are abstracted: a pending timer may fire at any moment.    *)
(***************************************************************************)
EXTENDS Integers, Sequences, FiniteSets, TLC

VARIABLES
    garden,             \* useState garden: plot id -> plot
    nextInst,           \* createPlant: the next fresh instanceId
    reproducedPlants,   \* reproducedPlantsRef
    growingSprouts,     \* growingSproutsRef
    growTimers,         \* pending setTimeout(2000) of growPlant, per plot
    weather,            \* useState weather
    forecast,           \* useState forecast
    prevWeather,        \* prevWeatherRef
    beeState,           \* useState beeState
    manualBeeMode,      \* useState manualBeeMode
    beeTick,            \* the 500ms timer of the bee pollination loop is armed
    beeCommits,         \* pending setTimeout(2000) of tryPollination
    beeNotes,           \* pending setTimeout(500) of tryPollination (notification)
    cornCommits,        \* pending setTimeout(3500) of checkCornPollination
    selfTimers,         \* pending setTimeout(30000) of the pumpkin/sunflower fallback
    beanTimers,         \* pending timers of the bean chain (6000, 30000, 1500)
    harvestTimers,      \* pending setTimeout(3500) of the bean harvest
    windNotes,          \* pending setTimeout(1000) "Vento sem Sementes"
    notifications,      \* useState notifications: how often each one was added
    inventory,          \* useState inventory
    reproductionTrigger,\* useState reproductionTrigger
    pollenSack,         \* useState pollenSack
    lastEvent,          \* history: what the last handler did
    windEp,             \* history: the pairings of the current windy period
    plantA, plantB,     \* the arguments of a determineOffspringGenetics call
    genetics            \* its result

vars == <<garden, nextInst, reproducedPlants, growingSprouts, growTimers, weather,
          forecast, prevWeather, beeState, manualBeeMode, beeTick, beeCommits,
          beeNotes, cornCommits, selfTimers, beanTimers, harvestTimers, windNotes,
          notifications, inventory, reproductionTrigger, pollenSack, lastEvent,
          windEp, plantA, plantB, genetics>>

-----------------------------------------------------------------------------
(* Bounds of the model *)

\* createPlant hands out the instance ids 1..MaxInst (the code draws random
\* strings: an id is a name that was not used before)
MaxInst == 4

\* at most MaxPending bean harvests wait for their green manure at a time
MaxPending == 2

\* the user plants on the plots 0..MaxUserPlot
MaxUserPlot == 1

\* instance ids of the plants handed to determineOffspringGenetics
MaxGenId == 3

\* the plots left empty in the crowded gardens that findEmptySpot searches
MaxEmpty == 2

\* pending "Vento sem Sementes" timers under freely changing weather
MaxGusts == 2

\* manual pollinations that are turned down
MaxRejects == 2

\* the plots of the pumpkin patch the bees visit
MaxPatch == 4

\* the plots of the corn field the wind blows over
MaxField == 4

\* the plots of the corn field under changing wind
MaxGale == 2

\* the plots left empty in the gardens where the bees work undisturbed
MaxQuiet == 2

-----------------------------------------------------------------------------
(* The grid *)

size == 4

Plots == 0 .. (size * size - 1)

PlantTypes == {"Abobora", "Milho", "Girassol", "Maca", "Feijao"}

WeatherTypes == {"sunny", "raining", "sunny_windy", "raining_windy"}

\* the absent plant (plant: null)
NoPlant ==
    [instanceId |-> 0, type |-> "none", stage |-> "none", parentIds |-> <<>>,
     isSmall |-> FALSE, isHybrid |-> FALSE, isBoosted |-> FALSE]

EmptyPlot == [plant |-> NoPlant, isWatered |-> FALSE, fertilizer |-> "none"]

HasPlant(plot) == plot.plant.instanceId # 0

\* pollenSack = null
NoPollen == [plant |-> NoPlant, sourcePlotId |-> -1]

createPlant(id, type, parentIds, isSmall, isHybrid) ==
    [instanceId |-> id, type |-> type, stage |-> "sprout", parentIds |-> parentIds,
     isSmall |-> isSmall, isHybrid |-> isHybrid, isBoosted |-> FALSE]

Includes(seq, x) == \E i \in DOMAIN seq : seq[i] = x

\* the in-bounds neighbours of centerId in the order of the two loops
\* (dr = -1..1, dc = -1..1, centre skipped)
NeighborSeq(centerId) ==
    LET row == centerId \div size
        col == centerId % size
        cand == << <<-1,-1>>, <<-1,0>>, <<-1,1>>, <<0,-1>>, <<0,1>>,
                   <<1,-1>>, <<1,0>>, <<1,1>> >>
        ok(d) == /\ row + d[1] >= 0 /\ row + d[1] < size
                 /\ col + d[2] >= 0 /\ col + d[2] < size
        idOf(d) == (row + d[1]) * size + (col + d[2])
        F[i \in 0 .. 8] ==
            IF i = 0 THEN <<>>
            ELSE IF ok(cand[i]) THEN Append(F[i-1], idOf(cand[i])) ELSE F[i-1]
    IN  F[8]

\* the first element of seq that is in S, or -1
FirstIn(seq, S) ==
    IF \E i \in DOMAIN seq : seq[i] \in S
    THEN seq[CHOOSE i \in DOMAIN seq :
                /\ seq[i] \in S
                /\ \A j \in DOMAIN seq : seq[j] \in S => i <= j]
    ELSE -1

Min(S) == CHOOSE x \in S : \A y \in S : x <= y

\* a slip that skips the search among the neighbours
findEmptySpotIn_LowestEmpty(centerId, empty) ==
    IF empty # {} THEN Min(empty) ELSE -1

\* findEmptySpot on a garden of which `empty` is the set of plots without a
\* plant; -1 stands for null
findEmptySpotIn(centerId, empty) ==
    IF FirstIn(NeighborSeq(centerId), empty) # -1
    THEN FirstIn(NeighborSeq(centerId), empty)
    ELSE IF empty # {} THEN Min(empty) ELSE -1

EmptyPlots(g) == {k \in Plots : ~HasPlant(g[k])}

findEmptySpot(centerId, currentGarden) ==
    findEmptySpotIn(centerId, EmptyPlots(currentGarden))

-----------------------------------------------------------------------------
(* Genetics *)

\* a slip that forgets the heterosis branch
determineOffspringGenetics_NoHeterosis(pA, pB) ==
    [isInbreeding |-> \/ Includes(pB.parentIds, pA.instanceId)
                      \/ Includes(pA.parentIds, pB.instanceId)
                      \/ pA.instanceId = pB.instanceId,
     isHybrid |-> FALSE]

determineOffspringGenetics(pA, pB) ==
    IF pA.isSmall /\ pB.isSmall
    THEN [isInbreeding |-> FALSE, isHybrid |-> TRUE]
    ELSE [isInbreeding |-> \/ Includes(pB.parentIds, pA.instanceId)
                           \/ Includes(pA.parentIds, pB.instanceId)
                           \/ pA.instanceId = pB.instanceId,
          isHybrid |-> FALSE]

-----------------------------------------------------------------------------
(* The state as one record, so that a handler and the effects React runs   *)
(* after it compose.  gch: setGarden was given a new array (the garden     *)
(* dependency of the effects changed).                                     *)

Cur ==
    [garden |-> garden, nextInst |-> nextInst, reproducedPlants |-> reproducedPlants,
     growingSprouts |-> growingSprouts, growTimers |-> growTimers, weather |-> weather,
     forecast |-> forecast, prevWeather |-> prevWeather, beeState |-> beeState,
     manualBeeMode |-> manualBeeMode, beeTick |-> beeTick, beeCommits |-> beeCommits,
     beeNotes |-> beeNotes, cornCommits |-> cornCommits, selfTimers |-> selfTimers,
     beanTimers |-> beanTimers, harvestTimers |-> harvestTimers, windNotes |-> windNotes,
     notifications |-> notifications, inventory |-> inventory,
     reproductionTrigger |-> reproductionTrigger, pollenSack |-> pollenSack,
     lastEvent |-> [kind |-> "none", target |-> -1, placed |-> 0],
     windEp |-> windEp, gch |-> FALSE]

Apply(s) ==
    /\ garden' = s.garden
    /\ nextInst' = s.nextInst
    /\ reproducedPlants' = s.reproducedPlants
    /\ growingSprouts' = s.growingSprouts
    /\ growTimers' = s.growTimers
    /\ weather' = s.weather
    /\ forecast' = s.forecast
    /\ prevWeather' = s.prevWeather
    /\ beeState' = s.beeState
    /\ manualBeeMode' = s.manualBeeMode
    /\ beeTick' = s.beeTick
    /\ beeCommits' = s.beeCommits
    /\ beeNotes' = s.beeNotes
    /\ cornCommits' = s.cornCommits
    /\ selfTimers' = s.selfTimers
    /\ beanTimers' = s.beanTimers
    /\ harvestTimers' = s.harvestTimers
    /\ windNotes' = s.windNotes
    /\ notifications' = s.notifications
    /\ inventory' = s.inventory
    /\ reproductionTrigger' = s.reproductionTrigger
    /\ pollenSack' = s.pollenSack
    /\ lastEvent' = s.lastEvent
    /\ windEp' = s.windEp
    /\ UNCHANGED <<plantA, plantB, genetics>>

RemoveAt(seq, i) == [j \in 1 .. (Len(seq) - 1) |-> IF j < i THEN seq[j] ELSE seq[j + 1]]

IsWindy(w) == w \in {"sunny_windy", "raining_windy"}

IsRaining(w) == w \in {"raining", "raining_windy"}

NoteKinds ==
    {"beeHybrid", "beeInbreeding", "crossAbobora", "crossMaca", "crossGirassol",
     "cornHybrid", "cornInbreeding", "cornDefault", "selfAbobora", "selfGirassol",
     "windNoSeeds", "envAlert", "beanFix", "beanSelf", "beanTip", "greenManure",
     "manualInvalidApple", "manualSelf", "manualHybrid", "manualInbreeding",
     "manualCross", "noSpace", "invalidTarget"}

addNotification(s, kind) ==
    [s EXCEPT !.notifications[kind] = @ + 1]

\* A tryPollination closure keeps the garden array it was called with.  Its
\* plot objects are shared with the state until a handler replaces them by
\* copies ({...p}); a plant written into a shared object (newGarden[k].plant =
\* ...) is seen through the closure.  snapEmpty: the plots the closure's array
\* shows empty; live: the plots whose object the state still shares.
WrittenInPlace(commits, k) ==
    [i \in DOMAIN commits |->
        IF k \in commits[i].live
        THEN [commits[i] EXCEPT !.snapEmpty = @ \ {k}]
        ELSE commits[i]]

Copied(commits, K) ==
    [i \in DOMAIN commits |-> [commits[i] EXCEPT !.live = @ \ K]]

\* newGarden[k].plant = plant, on the plot object of the state
putPlant(s, k, plant) ==
    [s EXCEPT !.garden[k].plant = plant,
              !.beeCommits = WrittenInPlace(@, k),
              !.lastEvent.placed = @ + 1,
              !.gch = TRUE]

\* currentGarden.map(p => p.id \in K ? {...p, changed} : p)
replacePlots(s, newGarden, K) ==
    [s EXCEPT !.garden = newGarden, !.beeCommits = Copied(@, K), !.gch = TRUE]

-----------------------------------------------------------------------------
(* growPlant *)

\* a slip that drops the in-flight guard
growPlant_NoGuard(s, plotId) ==
    [s EXCEPT !.growingSprouts = @ \cup {plotId},
              !.growTimers[plotId] = @ + 1]

growPlant(s, plotId) ==
    IF plotId \in s.growingSprouts
    THEN s
    ELSE [s EXCEPT !.growingSprouts = @ \cup {plotId},
                   !.growTimers[plotId] = @ + 1]

\* growPlant for every plot of the sequence, in order
RECURSIVE growAll(_, _)
growAll(s, seq) ==
    IF seq = <<>> THEN s ELSE growAll(growPlant(s, Head(seq)), Tail(seq))

\* the elements of S in ascending order
RECURSIVE Ascending(_)
Ascending(S) ==
    IF S = {} THEN <<>> ELSE <<Min(S)>> \o Ascending(S \ {Min(S)})

-----------------------------------------------------------------------------
(* checkCornPollination *)

GrownOf(g, type) ==
    {k \in Plots : g[k].plant.type = type /\ g[k].plant.stage = "grown"}

availableCorns(s) ==
    {k \in GrownOf(s.garden, "Milho") :
        s.garden[k].plant.instanceId \notin s.reproducedPlants}

InjectiveSeqs(S, n) ==
    {f \in [1 .. n -> S] : \A i, j \in 1 .. n : i # j => f[i] # f[j]}

\* the pairs of one pass that get a spot: floor(n/2) pairs, one spot each
\* while spots are left
PairsFormed(s) ==
    IF Cardinality(availableCorns(s)) < 2 THEN 0
    ELSE IF Cardinality(availableCorns(s)) \div 2 <= Cardinality(EmptyPlots(s.garden))
         THEN Cardinality(availableCorns(s)) \div 2
         ELSE Cardinality(EmptyPlots(s.garden))

\* the outcomes of the two shuffles (sort(() => 0.5 - Math.random())): the
\* order of the corns, and the spots the pairs pop, in the order popped
CornChoices(s) ==
    IF PairsFormed(s) = 0
    THEN {[order |-> <<>>, spots |-> <<>>]}
    ELSE {[order |-> o, spots |-> sp] :
            o \in InjectiveSeqs(availableCorns(s), Cardinality(availableCorns(s))),
            sp \in InjectiveSeqs(EmptyPlots(s.garden), PairsFormed(s))}

\* newPlantsInfo of the i-th pair
CornInfo(s, ch, i) ==
    LET cornA == s.garden[ch.order[2 * i - 1]].plant
        cornB == s.garden[ch.order[2 * i]].plant
        gen   == determineOffspringGenetics(cornA, cornB)
    IN  [plotId |-> ch.spots[i],
         plant |-> createPlant(s.nextInst + i - 1, "Milho",
                               <<cornA.instanceId, cornB.instanceId>>,
                               gen.isInbreeding, gen.isHybrid),
         isHybrid |-> gen.isHybrid,
         isInbreeding |-> gen.isInbreeding]

\* a slip that forgets to mark the paired corns as reproduced
checkCornPollination_NoMark(s, ch) ==
    IF PairsFormed(s) = 0
    THEN s
    ELSE LET n == PairsFormed(s) IN
         [s EXCEPT
            !.nextInst = @ + n,
            !.cornCommits = Append(@, [infos |-> [i \in 1 .. n |-> CornInfo(s, ch, i)],
                                       cur |-> TRUE]),
            !.windEp.pairs = @ + n]

\* a slip that marks every available corn, paired with a spot or not
checkCornPollination_MarksAll(s, ch) ==
    IF PairsFormed(s) = 0
    THEN s
    ELSE LET n == PairsFormed(s) IN
         [s EXCEPT
            !.reproducedPlants =
                @ \cup {s.garden[k].plant.instanceId : k \in availableCorns(s)},
            !.nextInst = @ + n,
            !.cornCommits = Append(@, [infos |-> [i \in 1 .. n |-> CornInfo(s, ch, i)],
                                       cur |-> TRUE]),
            !.windEp.pairs = @ + n]

checkCornPollination(s, ch) ==
    IF PairsFormed(s) = 0
    THEN s
    ELSE LET n == PairsFormed(s) IN
         [s EXCEPT
            !.reproducedPlants =
                @ \cup {s.garden[ch.order[j]].plant.instanceId : j \in 1 .. (2 * n)},
            !.nextInst = @ + n,
            !.cornCommits = Append(@, [infos |-> [i \in 1 .. n |-> CornInfo(s, ch, i)],
                                       cur |-> TRUE]),
            !.windEp.pairs = @ + n]

-----------------------------------------------------------------------------
(* The effects *)

\* a slip that schedules only the sprouts on the plots the rain has just wetted
rainLogic_DryOnly(s) ==
    LET sprouts == {k \in Plots : s.garden[k].plant.stage = "sprout"}
        dry     == {k \in Plots : ~s.garden[k].isWatered}
        s2      == replacePlots(s,
                                [k \in Plots |-> [s.garden[k] EXCEPT !.isWatered = TRUE]],
                                dry)
    IN  IF IsRaining(s.weather)
        THEN IF dry = {} THEN s ELSE growAll(s2, Ascending(sprouts \cap dry))
        ELSE IF s.prevWeather # "undefined" /\ IsRaining(s.prevWeather)
             THEN replacePlots(s,
                               [k \in Plots |-> [s.garden[k] EXCEPT !.isWatered = FALSE]],
                               Plots)
             ELSE s

\* a slip that dries the plots whenever the kind of weather changes after rain
rainLogic_DriesOnTurn(s) ==
    LET sprouts == {k \in Plots : s.garden[k].plant.stage = "sprout"}
        dry     == {k \in Plots : ~s.garden[k].isWatered}
        s1      == growAll(s, Ascending({k \in sprouts : s.garden[k].isWatered}))
        s2      == replacePlots(s1,
                                [k \in Plots |-> [s1.garden[k] EXCEPT !.isWatered = TRUE]],
                                dry)
    IN  IF IsRaining(s.weather) /\ s.prevWeather \in {"undefined", s.weather}
        THEN IF dry = {} THEN s1 ELSE growAll(s2, Ascending(sprouts \cap dry))
        ELSE IF s.prevWeather # "undefined" /\ IsRaining(s.prevWeather)
             THEN replacePlots(s,
                               [k \in Plots |-> [s.garden[k] EXCEPT !.isWatered = FALSE]],
                               Plots)
             ELSE s

\* Combined Weather Effects Logic: the rain part
rainLogic(s) ==
    LET sprouts == {k \in Plots : s.garden[k].plant.stage = "sprout"}
        dry     == {k \in Plots : ~s.garden[k].isWatered}
        s1      == growAll(s, Ascending({k \in sprouts : s.garden[k].isWatered}))
        s2      == replacePlots(s1,
                                [k \in Plots |-> [s1.garden[k] EXCEPT !.isWatered = TRUE]],
                                dry)
    IN  IF IsRaining(s.weather)
        THEN IF dry = {} THEN s1 ELSE growAll(s2, Ascending(sprouts \cap dry))
        ELSE IF s.prevWeather # "undefined" /\ IsRaining(s.prevWeather)
             THEN replacePlots(s,
                               [k \in Plots |-> [s.garden[k] EXCEPT !.isWatered = FALSE]],
                               Plots)
             ELSE s

\* the periods the history follows: wind that starts on exactly two grown
\* corn plants and an empty plot
NoEpisode == [active |-> FALSE, corn |-> {}, pairs |-> 0, placed |-> 0, notes |-> 0]

Retired(commits) == [i \in DOMAIN commits |-> [commits[i] EXCEPT !.cur = FALSE]]

GrownCornIds(g) == {g[k].plant.instanceId : k \in GrownOf(g, "Milho")}

\* a slip that also clears the set when the weather changes under wind
windLogic_ClearsOnTurn(s, g, ch) ==
    LET was == s.prevWeather # "undefined" /\ IsWindy(s.prevWeather)
        now == IsWindy(s.weather)
        started == [s EXCEPT
                      !.reproducedPlants = {},
                      !.cornCommits = Retired(@),
                      !.windEp = [active |-> /\ Cardinality(GrownOf(g, "Milho")) = 2
                                             /\ EmptyPlots(g) # {},
                                  corn |-> GrownCornIds(g),
                                  pairs |-> 0, placed |-> 0, notes |-> 0]]
    IN  IF ~was /\ now
        THEN IF Cardinality(GrownOf(g, "Milho")) < 2
             THEN [started EXCEPT !.windNotes = @ + 1]
             ELSE checkCornPollination(started, ch)
        ELSE IF was /\ (~now \/ s.prevWeather # s.weather)
             THEN [s EXCEPT !.reproducedPlants = {},
                            !.cornCommits = Retired(@),
                            !.windEp = NoEpisode]
             ELSE s

\* Combined Weather Effects Logic: the wind part; g is the garden of the render
windLogic(s, g, ch) ==
    LET was == s.prevWeather # "undefined" /\ IsWindy(s.prevWeather)
        now == IsWindy(s.weather)
        started == [s EXCEPT
                      !.reproducedPlants = {},
                      !.cornCommits = Retired(@),
                      !.windEp = [active |-> /\ Cardinality(GrownOf(g, "Milho")) = 2
                                             /\ EmptyPlots(g) # {},
                                  corn |-> GrownCornIds(g),
                                  pairs |-> 0, placed |-> 0, notes |-> 0]]
    IN  IF ~was /\ now
        THEN IF Cardinality(GrownOf(g, "Milho")) < 2
             THEN [started EXCEPT !.windNotes = @ + 1]
             ELSE checkCornPollination(started, ch)
        ELSE IF was /\ ~now
             THEN [s EXCEPT !.reproducedPlants = {},
                            !.cornCommits = Retired(@),
                            !.windEp = NoEpisode]
             ELSE s

weatherEffect(s, ch) ==
    [windLogic(rainLogic(s), s.garden, ch) EXCEPT !.prevWeather = s.weather]

hasSunflowers(g) == GrownOf(g, "Girassol") # {}

hasPesticides(g) == \E k \in Plots : g[k].fertilizer = "chemical"

\* a slip that lets the sunflowers and the manual mode call the bees over
\* pesticide
beeEffect_BeesOverPesticide(s) ==
    IF hasSunflowers(s.garden) \/ s.manualBeeMode
    THEN IF hasPesticides(s.garden)
         THEN (IF s.beeState = "dying" THEN s ELSE [s EXCEPT !.beeState = "dying"])
         ELSE [s EXCEPT !.beeState = "visible"]
    ELSE IF hasPesticides(s.garden)
         THEN (IF s.beeState = "visible" THEN [s EXCEPT !.beeState = "dying"] ELSE s)
         ELSE [s EXCEPT !.beeState = "hidden"]

\* Effect 1: State Transitions based on Garden Conditions (Bees)
beeEffect(s) ==
    IF hasPesticides(s.garden)
    THEN IF s.beeState = "visible" THEN [s EXCEPT !.beeState = "dying"] ELSE s
    ELSE IF hasSunflowers(s.garden) \/ s.manualBeeMode
         THEN [s EXCEPT !.beeState = "visible"]
         ELSE [s EXCEPT !.beeState = "hidden"]

\* a slip that leaves the timer of the bee loop armed when the bees go away
\* (no clearTimeout in the cleanup of the effect)
Settle_TimerSurvives(s0, s, ch) ==
    LET s1 == beeEffect(weatherEffect(s, ch))
        changed == \/ s1.gch
                   \/ s1.reproductionTrigger # s0.reproductionTrigger
                   \/ s1.beeState # s0.beeState
    IN  [s1 EXCEPT
           !.beeTick = IF s1.beeState = "visible"
                       THEN (IF changed THEN TRUE ELSE s1.beeTick)
                       ELSE s1.beeTick,
           !.windEp.corn = IF IsWindy(s1.weather) /\ s1.windEp.active
                           THEN @ \cup GrownCornIds(s1.garden)
                           ELSE @]

\* The renders and effects that follow a handler: s0 is the state before the
\* handler, s the state the handler left.  The timer of the bee loop is
\* re-armed when beeState, garden or reproductionTrigger changed, and exists
\* only while the bees are visible.
Settle(s0, s, ch) ==
    LET s1 == beeEffect(weatherEffect(s, ch))
        changed == \/ s1.gch
                   \/ s1.reproductionTrigger # s0.reproductionTrigger
                   \/ s1.beeState # s0.beeState
    IN  [s1 EXCEPT
           !.beeTick = IF s1.beeState = "visible"
                       THEN (IF changed THEN TRUE ELSE s1.beeTick)
                       ELSE FALSE,
           !.windEp.corn = IF IsWindy(s1.weather) /\ s1.windEp.active
                           THEN @ \cup GrownCornIds(s1.garden)
                           ELSE @]

\* the corn pass that the effects of the handler run on s, if any
WindStarts(s) ==
    /\ ~(s.prevWeather # "undefined" /\ IsWindy(s.prevWeather))
    /\ IsWindy(s.weather)

-----------------------------------------------------------------------------
(* tryPollination *)

seekers(s, plantType) ==
    {k \in GrownOf(s.garden, plantType) :
        s.garden[k].plant.instanceId \notin s.reproducedPlants}

\* a slip that takes the first partner in plot order, used or not
firstPartner_PlotOrder(s, plantType, source) ==
    Min(GrownOf(s.garden, plantType) \ {source})

\* partners.sort(unused first)[0]: the sort is stable, the filter is in plot order
firstPartner(s, plantType, source) ==
    LET partners == GrownOf(s.garden, plantType) \ {source}
        unused   == partners \cap seekers(s, plantType)
    IN  IF unused # {} THEN Min(unused) ELSE Min(partners)

\* a slip that marks the seeker as reproduced before it looks for a partner
tryPollination_MarksFirst(s, bee, plantType) ==
    IF bee # "visible" \/ seekers(s, plantType) = {}
    THEN [s |-> s, ok |-> FALSE]
    ELSE LET source == Min(seekers(s, plantType))
             s1 == [s EXCEPT !.reproducedPlants =
                                 @ \cup {s.garden[source].plant.instanceId}]
         IN  IF GrownOf(s.garden, plantType) \ {source} = {}
             THEN [s |-> s1, ok |-> FALSE]
             ELSE LET partner == firstPartner(s, plantType, source)
                  IN  [s |-> [s1 EXCEPT
                                !.reproducedPlants =
                                    @ \cup {s.garden[partner].plant.instanceId},
                                !.beeCommits =
                                    Append(@, [src |-> source,
                                               srcPlant |-> s.garden[source].plant,
                                               partnerPlant |-> s.garden[partner].plant,
                                               type |-> plantType,
                                               snapEmpty |-> EmptyPlots(s.garden),
                                               live |-> Plots])],
                       ok |-> TRUE]

\* a slip that does not mark the seeker (no reproducedPlantsRef.current.add(sourceId))
tryPollination_NoMark(s, bee, plantType) ==
    IF \/ bee # "visible"
       \/ seekers(s, plantType) = {}
       \/ GrownOf(s.garden, plantType) \ {Min(seekers(s, plantType))} = {}
    THEN [s |-> s, ok |-> FALSE]
    ELSE LET source  == Min(seekers(s, plantType))
             partner == firstPartner(s, plantType, source)
         IN  [s |-> [s EXCEPT
                       !.reproducedPlants =
                           @ \cup {s.garden[partner].plant.instanceId},
                       !.beeCommits =
                           Append(@, [src |-> source,
                                      srcPlant |-> s.garden[source].plant,
                                      partnerPlant |-> s.garden[partner].plant,
                                      type |-> plantType,
                                      snapEmpty |-> EmptyPlots(s.garden),
                                      live |-> Plots])],
              ok |-> TRUE]

\* the state after the call, and whether a pollination was initiated.  bee:
\* beeState of the render whose closure is called
tryPollination(s, bee, plantType) ==
    IF \/ bee # "visible"
       \/ seekers(s, plantType) = {}
       \/ GrownOf(s.garden, plantType) \ {Min(seekers(s, plantType))} = {}
    THEN [s |-> s, ok |-> FALSE]
    ELSE LET source  == Min(seekers(s, plantType))
             partner == firstPartner(s, plantType, source)
         IN  [s |-> [s EXCEPT
                       !.reproducedPlants =
                           @ \cup {s.garden[source].plant.instanceId,
                                   s.garden[partner].plant.instanceId},
                       !.beeCommits =
                           Append(@, [src |-> source,
                                      srcPlant |-> s.garden[source].plant,
                                      partnerPlant |-> s.garden[partner].plant,
                                      type |-> plantType,
                                      snapEmpty |-> EmptyPlots(s.garden),
                                      live |-> Plots])],
              ok |-> TRUE]

\* a slip that tries the sunflowers only if the pumpkins made no match
\* (pumpkinSuccess || tryPollination(garden, 'Girassol'))
beeLoop_ShortCircuit(s, bee) ==
    LET pumpkin   == tryPollination(s, bee, "Abobora")
        sunflower == tryPollination(pumpkin.s, bee, "Girassol")
    IN  IF pumpkin.ok THEN pumpkin.s
        ELSE IF sunflower.ok THEN sunflower.s
        ELSE tryPollination(sunflower.s, bee, "Maca").s

\* the callback of the 500ms timer of the bee pollination loop, armed by a
\* render with beeState = bee
beeLoop(s, bee) ==
    LET pumpkin   == tryPollination(s, bee, "Abobora")
        sunflower == tryPollination(pumpkin.s, bee, "Girassol")
    IN  IF ~pumpkin.ok /\ ~sunflower.ok
        THEN tryPollination(sunflower.s, bee, "Maca").s
        ELSE sunflower.s

\* the callback of setTimeout(..., 2000) of tryPollination
beeCommit(s, i) ==
    LET c   == s.beeCommits[i]
        s1  == [s EXCEPT !.beeCommits = RemoveAt(@, i)]
        emptySpotId == findEmptySpotIn(c.src, c.snapEmpty)
        gen == determineOffspringGenetics(c.srcPlant, c.partnerPlant)
        s2  == [s1 EXCEPT !.lastEvent.target = emptySpotId, !.gch = TRUE]
    IN  IF emptySpotId # -1
        THEN [(IF ~HasPlant(s.garden[emptySpotId])
               THEN putPlant([s2 EXCEPT !.nextInst = @ + 1], emptySpotId,
                             createPlant(s.nextInst, c.type,
                                         <<c.srcPlant.instanceId,
                                           c.partnerPlant.instanceId>>,
                                         gen.isInbreeding, gen.isHybrid))
               ELSE s2)
                EXCEPT !.beeNotes = Append(@, [isHybrid |-> gen.isHybrid,
                                               isInbreeding |-> gen.isInbreeding,
                                               type |-> c.type])]
        ELSE [s1 EXCEPT !.reproductionTrigger = @ + 1]

\* the callback of the inner setTimeout(..., 500) of tryPollination
beeNote(s, i) ==
    LET n  == s.beeNotes[i]
        s1 == [s EXCEPT !.beeNotes = RemoveAt(@, i),
                        !.reproductionTrigger = @ + 1]
    IN  IF n.isHybrid THEN addNotification(s1, "beeHybrid")
        ELSE IF n.isInbreeding THEN addNotification(s1, "beeInbreeding")
        ELSE IF n.type = "Abobora" THEN addNotification(s1, "crossAbobora")
        ELSE IF n.type = "Maca" THEN addNotification(s1, "crossMaca")
        ELSE addNotification(s1, "crossGirassol")

-----------------------------------------------------------------------------
(* The commit of checkCornPollination *)

\* the notification of one pair
cornNotification(s, info) ==
    IF info.isHybrid THEN addNotification(s, "cornHybrid")
    ELSE IF info.isInbreeding THEN addNotification(s, "cornInbreeding")
    ELSE addNotification(s, "cornDefault")

\* a slip that writes the offspring without the double-check of the spot
RECURSIVE placeCorn_NoRecheck(_, _)
placeCorn_NoRecheck(s, infos) ==
    IF infos = <<>> THEN s
    ELSE placeCorn_NoRecheck(putPlant(s, Head(infos).plotId, Head(infos).plant),
                             Tail(infos))

\* newPlantsInfo.forEach(info => if (!newGarden[info.plotId].plant) ...)
RECURSIVE placeCorn(_, _)
placeCorn(s, infos) ==
    IF infos = <<>> THEN s
    ELSE placeCorn(IF ~HasPlant(s.garden[Head(infos).plotId])
                   THEN putPlant(s, Head(infos).plotId, Head(infos).plant)
                   ELSE s,
                   Tail(infos))

RECURSIVE notifyCorn(_, _)
notifyCorn(s, infos) ==
    IF infos = <<>> THEN s
    ELSE notifyCorn(cornNotification(s, Head(infos)), Tail(infos))

\* the callback of setTimeout(..., 3500) of checkCornPollination
cornCommit(s, i) ==
    LET c  == s.cornCommits[i]
        s1 == [s EXCEPT !.cornCommits = RemoveAt(@, i), !.gch = TRUE,
                        !.lastEvent.target = c.infos[1].plotId]
        s2 == notifyCorn(placeCorn(s1, c.infos), c.infos)
    IN  IF c.cur
        THEN [s2 EXCEPT !.windEp.placed = @ + s2.lastEvent.placed,
                        !.windEp.notes = @ + Len(c.infos)]
        ELSE s2

-----------------------------------------------------------------------------
(* Effect 4: Reproduction Logic (triggered when a plant finishes growing) *)

\* bee: beeState of the render in which lastGrownId is set
onGrowth(s, lastGrownId, bee, ch) ==
    LET plant == s.garden[lastGrownId].plant IN
    IF plant.type = "Milho"
    THEN IF IsWindy(s.weather) THEN checkCornPollination(s, ch) ELSE s
    ELSE IF plant.type \in {"Abobora", "Girassol"}
    THEN [s EXCEPT !.selfTimers = Append(@, [plot |-> lastGrownId,
                                             inst |-> plant.instanceId,
                                             bee |-> bee,
                                             type |-> plant.type])]
    ELSE IF plant.type = "Maca"
    THEN IF bee = "visible" THEN [s EXCEPT !.reproductionTrigger = @ + 1] ELSE s
    ELSE [s EXCEPT !.beanTimers = Append(@, [plot |-> lastGrownId,
                                             inst |-> plant.instanceId,
                                             stage |-> "fix"])]

\* the callback of setTimeout(..., 30000) of the pumpkin and sunflower branches
selfPollination(s, i) ==
    LET r  == s.selfTimers[i]
        s1 == [s EXCEPT !.selfTimers = RemoveAt(@, i)]
        emptySpotId == findEmptySpot(r.plot, s.garden)
        s2 == IF /\ s.garden[r.plot].plant.instanceId = r.inst
                 /\ r.inst \notin s.reproducedPlants
                 /\ r.bee # "visible"
                 /\ emptySpotId # -1
              THEN putPlant([s1 EXCEPT !.reproducedPlants = @ \cup {r.inst},
                                       !.nextInst = @ + 1,
                                       !.lastEvent.target = emptySpotId],
                            emptySpotId,
                            createPlant(s.nextInst, r.type, <<r.inst>>, TRUE, FALSE))
              ELSE s1
    IN  IF r.bee # "visible"
        THEN addNotification(s2, IF r.type = "Abobora" THEN "selfAbobora"
                                 ELSE "selfGirassol")
        ELSE s2

\* the callbacks of the bean branch: setTimeout(..., 6000), then
\* setTimeout(..., 30000) and setTimeout(..., 1500) (the middle one only
\* starts an animation)
beanStep(s, i) ==
    LET r  == s.beanTimers[i]
        same == s.garden[r.plot].plant.instanceId = r.inst
        emptySpotId == findEmptySpot(r.plot, s.garden)
    IN  IF r.stage = "fix"
        THEN addNotification(
                [(IF same
                  THEN replacePlots(s, [s.garden EXCEPT ![r.plot].plant.isBoosted = TRUE],
                                    {r.plot})
                  ELSE s)
                    EXCEPT !.beanTimers = [@ EXCEPT ![i].stage = "self"]],
                "beanFix")
        ELSE addNotification(
                IF same /\ emptySpotId # -1
                THEN putPlant([s EXCEPT !.beanTimers = RemoveAt(@, i),
                                        !.nextInst = @ + 1,
                                        !.lastEvent.target = emptySpotId],
                              emptySpotId,
                              createPlant(s.nextInst, "Feijao", <<r.inst>>, FALSE, FALSE))
                ELSE [s EXCEPT !.beanTimers = RemoveAt(@, i)],
                "beanSelf")

-----------------------------------------------------------------------------
(* handlePlotClick *)

\* a slip that tests isSmall first
harvestSize_SmallFirst(plot) ==
    IF plot.plant.isSmall THEN "small"
    ELSE IF plot.plant.isHybrid \/ plot.fertilizer # "none" \/ plot.plant.isBoosted
    THEN "large"
    ELSE "normal"

harvestSize(plot) ==
    IF plot.plant.isHybrid \/ plot.fertilizer # "none" \/ plot.plant.isBoosted
    THEN "large"
    ELSE IF plot.plant.isSmall THEN "small" ELSE "normal"

\* selectedTool = 'colher' on a plot with a grown plant
harvest(s, plotId) ==
    LET plot == s.garden[plotId]
        s1   == [s EXCEPT !.inventory[plot.plant.type][harvestSize(plot)] = @ + 1]
    IN  IF plot.plant.type = "Feijao"
        THEN [s1 EXCEPT !.harvestTimers =
                 Append(@, [plot |-> plotId,
                            others |-> {k \in Plots \ {plotId} : HasPlant(s.garden[k])}])]
        ELSE replacePlots(s1, [s.garden EXCEPT ![plotId] = EmptyPlot], {plotId})

\* selectedTool = 'polinizacao_manual' with an empty pollen sack: COLLECT POLLEN
collectPollen(s, plotId) ==
    IF s.garden[plotId].plant.stage = "grown"
    THEN [s EXCEPT !.pollenSack = [plant |-> s.garden[plotId].plant,
                                   sourcePlotId |-> plotId],
                   !.lastEvent.target = plotId]
    ELSE [s EXCEPT !.lastEvent.target = plotId]

\* the offspring of a manual pollination, written into newGarden[emptySpotId]
manualOffspring(s, emptySpotId, target, parentIds, note) ==
    LET sourcePlant == s.pollenSack.plant
        gen == determineOffspringGenetics(sourcePlant, target)
        s1  == putPlant([s EXCEPT !.nextInst = @ + 1, !.pollenSack = NoPollen],
                        emptySpotId,
                        createPlant(s.nextInst, sourcePlant.type, parentIds,
                                    gen.isInbreeding, gen.isHybrid))
    IN  addNotification(s1, IF note # "byGenetics" THEN note
                            ELSE IF gen.isHybrid THEN "manualHybrid"
                            ELSE IF gen.isInbreeding THEN "manualInbreeding"
                            ELSE "manualCross")

\* selectedTool = 'polinizacao_manual' with pollen in the sack: APPLY POLLEN
applyPollen(s0, plotId) ==
    LET s == [s0 EXCEPT !.lastEvent.target = plotId]
        sourcePlant == s.pollenSack.plant
        plot == s.garden[plotId]
        emptySpotId == findEmptySpot(plotId, s.garden)
    IN  IF s.pollenSack.sourcePlotId = plotId
        THEN IF sourcePlant.type = "Maca"
             THEN addNotification(s, "manualInvalidApple")
             ELSE IF emptySpotId # -1
             THEN manualOffspring(s, emptySpotId, sourcePlant,
                                  <<sourcePlant.instanceId>>, "manualSelf")
             ELSE addNotification(s, "noSpace")
        ELSE IF plot.plant.stage = "grown" /\ plot.plant.type = sourcePlant.type
        THEN IF emptySpotId # -1
             THEN manualOffspring(s, emptySpotId, plot.plant,
                                  <<sourcePlant.instanceId, plot.plant.instanceId>>,
                                  "byGenetics")
             ELSE addNotification(s, "noSpace")
        ELSE addNotification(s, "invalidTarget")

\* Effect: Clear pollen sack if tool changes.  The handlers of the other
\* tools run with their tool selected.
OtherToolKinds == {"plantSeed", "water", "fertilize", "harvest", "harvestClick"}

toolEffect(s) ==
    IF s.lastEvent.kind \in OtherToolKinds THEN [s EXCEPT !.pollenSack = NoPollen] ELSE s

\* a slip that harvests whatever plant stands on the plot
clickHarvest_AnyPlant(s, plotId) ==
    IF HasPlant(s.garden[plotId])
    THEN harvest([s EXCEPT !.lastEvent.target = plotId], plotId)
    ELSE [s EXCEPT !.lastEvent.target = plotId]

\* handlePlotClick with selectedTool = 'colher' on any plot: the harvest
\* branch needs a grown plant; otherwise OTHER TOOLS LOGIC finds no branch
\* for 'colher' and returns currentGarden
clickHarvest(s, plotId) ==
    IF s.garden[plotId].plant.stage = "grown"
    THEN harvest([s EXCEPT !.lastEvent.target = plotId], plotId)
    ELSE [s EXCEPT !.lastEvent.target = plotId]

\* a slip that fertilizes the plots that hold a plant when the timer fires
greenManure_AtFireTime(s, i) ==
    LET r == s.harvestTimers[i]
        now == {k \in Plots \ {r.plot} : HasPlant(s.garden[k])}
        g == [k \in Plots |->
                IF k \in now THEN [s.garden[k] EXCEPT !.fertilizer = "organic"]
                ELSE IF k = r.plot THEN EmptyPlot
                ELSE s.garden[k]]
    IN  addNotification(
            addNotification(
                replacePlots([s EXCEPT !.harvestTimers = RemoveAt(@, i)], g,
                             now \cup {r.plot}),
                "beanTip"),
            "greenManure")

\* the callback of setTimeout(..., 3500) of the bean harvest
greenManure(s, i) ==
    LET r == s.harvestTimers[i]
        g == [k \in Plots |->
                IF k \in r.others THEN [s.garden[k] EXCEPT !.fertilizer = "organic"]
                ELSE IF k = r.plot THEN EmptyPlot
                ELSE s.garden[k]]
    IN  addNotification(
            addNotification(
                replacePlots([s EXCEPT !.harvestTimers = RemoveAt(@, i)], g,
                             r.others \cup {r.plot}),
                "beanTip"),
            "greenManure")

\* selectedTool is a seed, on an empty plot
plantSeed(s, type, plotId) ==
    LET s1 == putPlant([s EXCEPT !.nextInst = @ + 1], plotId,
                       createPlant(s.nextInst, type, <<>>, FALSE, FALSE))
    IN  IF IsRaining(s.weather)
        THEN growPlant([s1 EXCEPT !.garden[plotId].isWatered = TRUE], plotId)
        ELSE s1

\* selectedTool = 'regador' on a dry sprout
water(s, plotId) ==
    growPlant([s EXCEPT !.garden[plotId].isWatered = TRUE, !.gch = TRUE], plotId)

\* selectedTool = 'adubo_organico' / 'agrotoxico' on a plant without fertilizer
fertilize(s, kind, plotId) ==
    [s EXCEPT !.garden[plotId].fertilizer = kind, !.gch = TRUE]

\* a slip that lets the timer grow the sprout only if its plot is still watered
growTimer_OnlyIfWatered(s, plotId, eager, ch) ==
    [s EXCEPT !.growTimers[plotId] = @ - 1,
              !.growingSprouts = @ \ {plotId},
              !.garden[plotId].plant.stage =
                  IF @ = "sprout" /\ s.garden[plotId].isWatered THEN "grown" ELSE @,
              !.gch = TRUE]

\* the callback of setTimeout(..., 2000) of growPlant.  eager: React ran the
\* updater given to setGarden inside the call, so that plantGrew is set when
\* `if (plantGrew)` reads it; otherwise the updater runs at the next render,
\* after the read, and setLastGrownId is not called.
growTimer(s, plotId, eager, ch) ==
    LET grew == s.garden[plotId].plant.stage = "sprout"
        s1 == [(IF grew
                THEN replacePlots(s, [s.garden EXCEPT ![plotId].plant.stage = "grown"],
                                  {plotId})
                ELSE s)
                 EXCEPT !.growTimers[plotId] = @ - 1,
                        !.growingSprouts = @ \ {plotId}]
    IN  IF grew /\ eager THEN onGrowth(s1, plotId, s.beeState, ch) ELSE s1

\* a slip that puts the new forecast in front instead of at the end
advanceWeather_NewFirst(s, newRandomWeather) ==
    [s EXCEPT !.weather = Head(s.forecast),
              !.forecast = <<newRandomWeather>> \o Tail(s.forecast)]

advanceWeather(s, newRandomWeather) ==
    [s EXCEPT !.weather = Head(s.forecast),
              !.forecast = Append(Tail(s.forecast), newRandomWeather)]

\* Effect 2: Animation Timer for Dying Bees, the callback of setTimeout(..., 3500)
beesDied(s) == addNotification([s EXCEPT !.beeState = "hidden"], "envAlert")

-----------------------------------------------------------------------------
(* The garden: initial states *)

UserPlots == 1 .. MaxUserPlot

\* the seeds the user plants in the runs
SeedTypes == {"Maca"}

\* the random forecast that advanceWeather appends in the runs
AppendedWeathers == {"sunny"}

NoChoice == [order |-> <<>>, spots |-> <<>>]

NoGenetics == [isInbreeding |-> FALSE, isHybrid |-> FALSE, called |-> FALSE]

NoEvent == [kind |-> "none", target |-> -1, placed |-> 0]

\* the state after construction and the first run of the effects
Fresh ==
    [garden |-> [k \in Plots |-> EmptyPlot],
     nextInst |-> MaxInst,
     reproducedPlants |-> {},
     growingSprouts |-> {},
     growTimers |-> [k \in Plots |-> 0],
     weather |-> "sunny",
     forecast |-> <<"sunny", "sunny", "sunny", "sunny">>,
     prevWeather |-> "sunny",
     beeState |-> "hidden",
     manualBeeMode |-> FALSE,
     beeTick |-> FALSE,
     beeCommits |-> <<>>,
     beeNotes |-> <<>>,
     cornCommits |-> <<>>,
     selfTimers |-> <<>>,
     beanTimers |-> <<>>,
     harvestTimers |-> <<>>,
     windNotes |-> 0,
     notifications |-> [n \in NoteKinds |-> 0],
     inventory |-> [ty \in PlantTypes |-> [sz \in {"small", "normal", "large"} |-> 0]],
     reproductionTrigger |-> 0,
     pollenSack |-> NoPollen,
     lastEvent |-> NoEvent,
     windEp |-> NoEpisode]

Sprout(id, type) == createPlant(id, type, <<>>, FALSE, FALSE)

Grown(id, type, parentIds, isSmall) ==
    [createPlant(id, type, parentIds, isSmall, FALSE) EXCEPT !.stage = "grown"]

Watered(plant) == [plant |-> plant, isWatered |-> TRUE, fertilizer |-> "none"]

\* nothing planted yet; rain is forecast
ScnEmpty ==
    [Fresh EXCEPT !.forecast = <<"raining", "sunny", "sunny", "sunny">>]

\* two pumpkins were planted on plots 0 and 2, watered, and have grown; the
\* fallback timer of each is pending; rain is forecast
ScnPumpkins ==
    [Fresh EXCEPT
       !.garden = [k \in Plots |->
                     IF k = 0 THEN Watered(Grown(1, "Abobora", <<>>, FALSE))
                     ELSE IF k = 2 THEN Watered(Grown(2, "Abobora", <<>>, FALSE))
                     ELSE EmptyPlot],
       !.selfTimers = << [plot |-> 0, inst |-> 1, bee |-> "hidden", type |-> "Abobora"],
                         [plot |-> 2, inst |-> 2, bee |-> "hidden", type |-> "Abobora"] >>,
       !.forecast = <<"raining", "sunny", "sunny", "sunny">>]

\* two corns were planted on plots 0 and 5, watered, and have grown; wind is
\* forecast
ScnCorns ==
    [Fresh EXCEPT
       !.garden = [k \in Plots |->
                     IF k = 0 THEN Watered(Grown(1, "Milho", <<>>, FALSE))
                     ELSE IF k = 5 THEN Watered(Grown(2, "Milho", <<>>, FALSE))
                     ELSE EmptyPlot],
       !.nextInst = MaxInst - 1,
       !.forecast = <<"sunny_windy", "sunny", "sunny", "sunny">>]

\* an apple (1) on plot 0 and an apple (2) on plot 4 were pollinated by the
\* bees (manual bee mode), their child (3) was placed on plot 1, watered, and
\* has just grown; apple 2 was harvested
ScnApples ==
    [Fresh EXCEPT
       !.garden = [k \in Plots |->
                     IF k = 0 THEN Watered(Grown(1, "Maca", <<>>, FALSE))
                     ELSE IF k = 1 THEN Watered(Grown(3, "Maca", <<1, 2>>, FALSE))
                     ELSE EmptyPlot],
       !.reproducedPlants = {1, 2},
       !.manualBeeMode = TRUE,
       !.beeState = "visible",
       !.beeTick = TRUE,
       !.notifications = [n \in NoteKinds |-> IF n = "crossMaca" THEN 1 ELSE 0],
       !.inventory = [ty \in PlantTypes |-> [sz \in {"small", "normal", "large"} |->
                        IF ty = "Maca" /\ sz = "normal" THEN 1 ELSE 0]],
       !.reproductionTrigger = 2]

\* a seed of `type` was planted on plot 0 and watered: its growth timer is
\* pending
ScnSprout(type) ==
    [Fresh EXCEPT
       !.garden = [k \in Plots |->
                     IF k = 0 THEN Watered(Sprout(1, type)) ELSE EmptyPlot],
       !.growingSprouts = {0},
       !.growTimers = [k \in Plots |-> IF k = 0 THEN 1 ELSE 0]]

\* a pumpkin has grown on plot c without bees, its fallback timer is pending,
\* and the user has put an apple seed in every plot outside `empty`
ScnCrowded(c, empty) ==
    [Fresh EXCEPT
       !.garden = [k \in Plots |->
                     IF k = c THEN Watered(Grown(1, "Abobora", <<>>, FALSE))
                     ELSE IF k \in empty THEN EmptyPlot
                     ELSE [plant |-> Sprout(10 + k, "Maca"), isWatered |-> FALSE,
                           fertilizer |-> "none"]],
       !.selfTimers = << [plot |-> c, inst |-> 1, bee |-> "hidden", type |-> "Abobora"] >>]
\* a plant of `type` stands grown on plot 0, its timers have all fired:
\* kind says whether it is a plain plant, the small offspring of a
\* self-pollination (of two related parents, for an apple) or the hybrid of
\* two parents; boosted, whether it is a bean past its nitrogen fixation
ScnRipe(type, kind, boosted) ==
    [Fresh EXCEPT
       !.garden = [k \in Plots |->
                     IF k = 0
                     THEN Watered([createPlant(1, type,
                                               IF kind = "small" /\ type # "Maca" THEN <<2>>
                                               ELSE IF kind # "plain" THEN <<2, 3>>
                                               ELSE <<>>,
                                               kind = "small", kind = "hybrid")
                                     EXCEPT !.stage = "grown", !.isBoosted = boosted])
                     ELSE EmptyPlot],
       !.beeState = IF type = "Girassol" THEN "visible" ELSE "hidden",
       !.beeTick = (type = "Girassol"),
       !.reproducedPlants = {1}]
\* a bean (1) past its nitrogen fixation and its self-pollination stands
\* grown on plot 0, a grown apple (2) on plot 1; the bean's offspring (3) is
\* a sprout on plot 4
ScnOrchard ==
    [Fresh EXCEPT
       !.garden = [k \in Plots |->
                     IF k = 0
                     THEN Watered([Grown(1, "Feijao", <<>>, FALSE) EXCEPT !.isBoosted = TRUE])
                     ELSE IF k = 1 THEN Watered(Grown(2, "Maca", <<>>, FALSE))
                     ELSE IF k = 4
                     THEN [plant |-> createPlant(3, "Feijao", <<1>>, FALSE, FALSE),
                           isWatered |-> FALSE,
                           fertilizer |-> "none"]
                     ELSE EmptyPlot],
       !.notifications = [n \in NoteKinds |->
                            IF n \in {"beanFix", "beanSelf"} THEN 1 ELSE 0]]
\* pumpkins stand grown on the plots P, those with an id in R have reproduced
\* since the set was last cleared; the bees are visible (manual mode) and the
\* timer of their loop is armed; the fallback timers have fired
ScnPatch(P, R) ==
    [Fresh EXCEPT
       !.garden = [k \in Plots |->
                     IF k \in P THEN Watered(Grown(10 + k, "Abobora", <<>>, FALSE))
                     ELSE EmptyPlot],
       !.reproducedPlants = R,
       !.manualBeeMode = TRUE,
       !.beeState = "visible",
       !.beeTick = TRUE]
\* the wind blows over corns standing grown on the plots C, those on the
\* plots R have reproduced since it started; the plots E are empty and the user
\* has put an apple seed in every other plot
ScnField(C, R, E) ==
    [Fresh EXCEPT
       !.garden = [k \in Plots |->
                     IF k \in C THEN Watered(Grown(10 + k, "Milho", <<>>, FALSE))
                     ELSE IF k \in E THEN EmptyPlot
                     ELSE [plant |-> Sprout(10 + k, "Maca"), isWatered |-> FALSE,
                           fertilizer |-> "none"]],
       !.reproducedPlants = {10 + k : k \in R},
       !.nextInst = MaxInst - 1,
       !.weather = "sunny_windy",
       !.prevWeather = "sunny_windy"]
\* the field of ScnField under the weather w, with a corn seed watered on the
\* last plot, its growth timer pending, and grown apples in the other plots.
\* Without wind the set holds no corn (it was cleared when the wind left):
\* the plants on R are then pumpkins that have reproduced.  A change between
\* the windy kinds, the end of the wind and its return are forecast
ScnGale(C, R, E, w) ==
    [Fresh EXCEPT
       !.garden = [k \in Plots |->
                     IF k \in R /\ ~IsWindy(w)
                     THEN Watered(Grown(10 + k, "Abobora", <<>>, FALSE))
                     ELSE IF k \in C THEN Watered(Grown(10 + k, "Milho", <<>>, FALSE))
                     ELSE IF k \in E THEN EmptyPlot
                     ELSE IF k = size * size - 1 THEN Watered(Sprout(10 + k, "Milho"))
                     ELSE Watered(Grown(10 + k, "Maca", <<>>, FALSE))],
       !.reproducedPlants = {10 + k : k \in R},
       !.growingSprouts = {size * size - 1},
       !.growTimers = [k \in Plots |-> IF k = size * size - 1 THEN 1 ELSE 0],
       !.weather = w,
       !.prevWeather = w,
       !.forecast = <<"raining_windy", "sunny", "sunny_windy", "raining_windy">>]
\* the species the bees pollinate, in the order of the plots of ScnMixed
BeeSpecies == <<"Abobora", "Girassol", "Maca">>

\* two grown plants of each species of T stand side by side, those on the
\* plots R have reproduced since the set was last cleared; the bees are
\* visible (manual mode) and the timer of their loop is armed; the fallback
\* timers have fired
ScnMixed(T, R) ==
    [Fresh EXCEPT
       !.garden = [k \in Plots |->
                     IF k < 6 /\ BeeSpecies[(k \div 2) + 1] \in T
                     THEN Watered(Grown(10 + k, BeeSpecies[(k \div 2) + 1], <<>>, FALSE))
                     ELSE EmptyPlot],
       !.reproducedPlants = {10 + k : k \in R},
       !.nextInst = MaxInst - 1,
       !.manualBeeMode = TRUE,
       !.beeState = "visible",
       !.beeTick = TRUE]

\* two grown plants of one bee-pollinated species stand on the plots 0 and 1,
\* those on the plots R have reproduced since the set was last cleared; e
\* plots are empty and grown corn fills the rest; the weather is w and stays;
\* the bees are visible (manual mode) and the timer of their loop is armed;
\* there is an id for the offspring of every empty plot
ScnQuiet(type, R, e, w) ==
    [Fresh EXCEPT
       !.garden = [k \in Plots |->
                     [plant |-> IF k < 2 THEN Grown(10 + k, type, <<>>, FALSE)
                                ELSE IF k < 2 + e THEN NoPlant
                                ELSE Grown(10 + k, "Milho", <<>>, FALSE),
                      isWatered |-> IsRaining(w) \/ ~(k \in 2 .. (1 + e)),
                      fertilizer |-> "none"]],
       !.reproducedPlants = {10 + k : k \in R},
       !.nextInst = MaxInst - MaxQuiet,
       !.weather = w,
       !.prevWeather = w,
       !.manualBeeMode = TRUE,
       !.beeState = "visible",
       !.beeTick = TRUE]

GardenFrom(scenarios) ==
    \E sc \in scenarios :
        /\ garden = sc.garden
        /\ nextInst = sc.nextInst
        /\ reproducedPlants = sc.reproducedPlants
        /\ growingSprouts = sc.growingSprouts
        /\ growTimers = sc.growTimers
        /\ weather = sc.weather
        /\ forecast = sc.forecast
        /\ prevWeather = sc.prevWeather
        /\ beeState = sc.beeState
        /\ manualBeeMode = sc.manualBeeMode
        /\ beeTick = sc.beeTick
        /\ beeCommits = sc.beeCommits
        /\ beeNotes = sc.beeNotes
        /\ cornCommits = sc.cornCommits
        /\ selfTimers = sc.selfTimers
        /\ beanTimers = sc.beanTimers
        /\ harvestTimers = sc.harvestTimers
        /\ windNotes = sc.windNotes
        /\ notifications = sc.notifications
        /\ inventory = sc.inventory
        /\ reproductionTrigger = sc.reproductionTrigger
        /\ pollenSack = sc.pollenSack
        /\ lastEvent = sc.lastEvent
        /\ windEp = sc.windEp

InitFrom(scenarios) ==
    /\ GardenFrom(scenarios)
    /\ plantA = NoPlant
    /\ plantB = NoPlant
    /\ genetics = NoGenetics

-----------------------------------------------------------------------------
(* The garden: actions *)

\* the handler's result s, then the effects, within the bound on the plants
Commit(kind, s, ch) ==
    LET done == toolEffect(Settle(Cur, [s EXCEPT !.lastEvent.kind = kind], ch))
    IN  /\ done.nextInst <= MaxInst + 1
        /\ Len(done.harvestTimers) <= MaxPending
        /\ Apply(done)

PlantSeed ==
    \E type \in SeedTypes, plotId \in UserPlots :
        /\ ~HasPlant(garden[plotId])
        /\ Commit("plantSeed", plantSeed(Cur, type, plotId), NoChoice)

Water ==
    \E plotId \in Plots :
        /\ garden[plotId].plant.stage = "sprout"
        /\ ~garden[plotId].isWatered
        /\ Commit("water", water(Cur, plotId), NoChoice)

Fertilize ==
    \E kind \in {"organic", "chemical"}, plotId \in Plots :
        /\ HasPlant(garden[plotId])
        /\ garden[plotId].fertilizer = "none"
        /\ Commit("fertilize", fertilize(Cur, kind, plotId), NoChoice)

Harvest ==
    \E plotId \in Plots :
        /\ garden[plotId].plant.stage = "grown"
        /\ Commit("harvest", harvest(Cur, plotId), NoChoice)

\* clicks with the manual pollination tool
CollectPollen ==
    \E plotId \in Plots :
        /\ pollenSack = NoPollen
        /\ Commit("collectPollen", collectPollen(Cur, plotId), NoChoice)

ApplyPollen ==
    \E plotId \in Plots :
        /\ pollenSack # NoPollen
        /\ notifications["manualInvalidApple"] + notifications["invalidTarget"]
              + notifications["noSpace"] < MaxRejects
        /\ Commit("applyPollen", applyPollen(Cur, plotId), NoChoice)

\* a click with the harvest tool on any plot
HarvestClick ==
    \E plotId \in Plots :
        Commit("harvestClick", clickHarvest(Cur, plotId), NoChoice)

ToggleManualBees ==
    Commit("toggleBees", [Cur EXCEPT !.manualBeeMode = ~manualBeeMode], NoChoice)

\* the button "advance weather", the new random weather drawn from W
AdvanceWeatherTo(W) ==
    \E w \in W :
        LET s1   == advanceWeather(Cur, w)
            pass == [rainLogic(s1) EXCEPT !.reproducedPlants = {}]
        IN  \E ch \in (IF WindStarts(s1) THEN CornChoices(pass) ELSE {NoChoice}) :
                Commit("advanceWeather", s1, ch)

AdvanceWeather == AdvanceWeatherTo(AppendedWeathers)

\* the same with every weather the code can draw
AdvanceWeatherAny ==
    /\ windNotes < MaxGusts
    /\ AdvanceWeatherTo(WeatherTypes)

GrowTimerFire ==
    \E plotId \in Plots, eager \in BOOLEAN :
        /\ growTimers[plotId] > 0
        /\ LET grown == growTimer(Cur, plotId, FALSE, NoChoice)
               pass  == /\ eager
                        /\ garden[plotId].plant.stage = "sprout"
                        /\ garden[plotId].plant.type = "Milho"
                        /\ IsWindy(weather)
           IN  \E ch \in (IF pass THEN CornChoices(grown) ELSE {NoChoice}) :
                   Commit("grow", growTimer(Cur, plotId, eager, ch), NoChoice)

\* the effect arms the timer only `if (beeState === 'visible')`, and the
\* tryPollination it calls is the closure of that render
BeeTickFire ==
    /\ beeTick
    /\ Commit("beeTick", beeLoop([Cur EXCEPT !.beeTick = FALSE], "visible"), NoChoice)

BeeCommitFire ==
    \E i \in DOMAIN beeCommits :
        Commit("beeCommit", beeCommit(Cur, i), NoChoice)

BeeNoteFire ==
    \E i \in DOMAIN beeNotes : Commit("beeNote", beeNote(Cur, i), NoChoice)

\* Effect: Periodic Corn Pollination Check during Wind (setInterval 5000)
\* a slip that leaves the interval running when the wind is gone (no
\* clearInterval in the cleanup of the effect)
CornIntervalFire_AnyWeather ==
    \E ch \in CornChoices(Cur) :
        Commit("cornInterval", checkCornPollination(Cur, ch), NoChoice)

CornIntervalFire ==
    /\ IsWindy(weather)
    /\ \E ch \in CornChoices(Cur) :
           Commit("cornInterval", checkCornPollination(Cur, ch), NoChoice)

CornCommitFire ==
    \E i \in DOMAIN cornCommits : Commit("cornCommit", cornCommit(Cur, i), NoChoice)

SelfTimerFire ==
    \E i \in DOMAIN selfTimers :
        Commit("selfPollination", selfPollination(Cur, i), NoChoice)

BeanTimerFire ==
    \E i \in DOMAIN beanTimers :
        Commit("bean", beanStep(Cur, i), NoChoice)

HarvestTimerFire ==
    \E i \in DOMAIN harvestTimers :
        Commit("greenManure", greenManure(Cur, i), NoChoice)

\* the callback of setTimeout(..., 1000) of the wind logic
WindNoteFire ==
    /\ windNotes > 0
    /\ Commit("windNote", addNotification([Cur EXCEPT !.windNotes = @ - 1], "windNoSeeds"), NoChoice)

DyingTimerFire ==
    /\ beeState = "dying"
    /\ Commit("beesDied", beesDied(Cur), NoChoice)

\* bee-pollinated species, with the user filling plots, harvesting and
\* switching the bees on and off, and rain
NextBees ==
    \/ PlantSeed
    \/ Water
    \/ Harvest
    \/ ToggleManualBees
    \/ AdvanceWeather
    \/ GrowTimerFire
    \/ BeeTickFire
    \/ BeeCommitFire
    \/ BeeNoteFire
    \/ SelfTimerFire

InitBees == InitFrom({ScnPumpkins, ScnApples})

SpecBees == InitBees /\ [][NextBees]_vars

\* corn under wind
NextCorn ==
    \/ PlantSeed
    \/ Water
    \/ Harvest
    \/ AdvanceWeather
    \/ GrowTimerFire
    \/ CornIntervalFire
    \/ CornCommitFire
    \/ WindNoteFire

InitCorn == InitFrom({ScnCorns})

SpecCorn == InitCorn /\ [][NextCorn]_vars

\* a plant growing alone; the bees never appear
NextSolo ==
    \/ PlantSeed
    \/ Water
    \/ Harvest
    \/ GrowTimerFire
    \/ SelfTimerFire
    \/ BeanTimerFire
    \/ HarvestTimerFire

InitSolo == InitFrom({ScnSprout("Abobora"), ScnSprout("Feijao")})

SpecSolo == InitSolo /\ [][NextSolo]_vars

\* two grown plants of a bee-pollinated species, with the user switching the
\* bees on and off and spreading fertilizer and pesticide
NextHive ==
    \/ Fertilize
    \/ Harvest
    \/ ToggleManualBees
    \/ BeeTickFire
    \/ BeeCommitFire
    \/ BeeNoteFire
    \/ DyingTimerFire

InitHive == InitFrom({ScnPumpkins, ScnApples})

SpecHive == InitHive /\ [][NextHive]_vars

\* the fallback of a pumpkin looks for a spot in a crowded garden
NextSpot == SelfTimerFire

InitSpot ==
    InitFrom({ScnCrowded(c, empty) :
                c \in Plots,
                empty \in {e \in SUBSET Plots : Cardinality(e) <= MaxEmpty}})

SpecSpot == InitSpot /\ [][NextSpot]_vars

\* one ripe plant of any kind is fertilized or not, then harvested
NextBasket ==
    \/ PlantSeed
    \/ Fertilize
    \/ Harvest
    \/ HarvestTimerFire

InitBasket ==
    InitFrom({ScnRipe(type, kind, boosted) :
                type \in PlantTypes, kind \in {"plain", "small", "hybrid"},
                boosted \in BOOLEAN}
             \ {ScnRipe(type, kind, TRUE) :
                  type \in PlantTypes \ {"Feijao"}, kind \in {"plain", "small", "hybrid"}})

SpecBasket == InitBasket /\ [][NextBasket]_vars

\* the weather of an empty garden: any initial forecast, any new weather
NextSky == AdvanceWeatherAny

InitSky ==
    InitFrom({[Fresh EXCEPT !.forecast = f] : f \in [1 .. 4 -> WeatherTypes]})

SpecSky == InitSky /\ [][NextSky]_vars

\* every tool on a garden with a ripe plant, a seed and empty plots
NextClicks ==
    \/ PlantSeed
    \/ Fertilize
    \/ HarvestClick
    \/ HarvestTimerFire

SpecClicks == InitBasket /\ [][NextClicks]_vars

\* the manual pollination tool, next to the harvest tool
NextPollen ==
    \/ CollectPollen
    \/ ApplyPollen
    \/ Harvest
    \/ HarvestTimerFire

InitPollen == InitFrom({ScnOrchard, ScnCrowded(0, {}), ScnCrowded(0, {15})})

SpecPollen == InitPollen /\ [][NextPollen]_vars

\* the bees over a patch of pumpkins
NextPatch ==
    \/ BeeTickFire
    \/ BeeCommitFire
    \/ BeeNoteFire

InitPatch ==
    InitFrom(UNION {{ScnPatch(P, {10 + k : k \in Q}) : Q \in SUBSET P} :
                      P \in SUBSET (0 .. (MaxPatch - 1))})

SpecPatch == InitPatch /\ [][NextPatch]_vars

\* the wind over a field of corn
NextField ==
    \/ CornIntervalFire
    \/ CornCommitFire

InitField ==
    InitFrom(UNION {{ScnField(C, R, E) :
                       R \in SUBSET C,
                       E \in SUBSET (MaxField .. (MaxField + MaxEmpty - 1))} :
                      C \in SUBSET (0 .. (MaxField - 1))})

SpecField == InitField /\ [][NextField]_vars

\* the wind coming, turning and going over a field of corn
NextGale ==
    \/ AdvanceWeather
    \/ GrowTimerFire
    \/ CornIntervalFire
    \/ CornCommitFire
    \/ WindNoteFire

InitGale ==
    InitFrom(UNION {{ScnGale(C, R, E, w) :
                       R \in SUBSET C,
                       E \in SUBSET (MaxGale .. (MaxGale + MaxEmpty - 1)),
                       w \in {"sunny", "sunny_windy"}} :
                      C \in SUBSET (0 .. (MaxGale - 1))})

SpecGale == InitGale /\ [][NextGale]_vars

\* every weather over a garden with a seed and ripe plants
NextRain ==
    \/ AdvanceWeatherAny
    \/ GrowTimerFire

InitRain ==
    InitFrom({[ScnOrchard EXCEPT !.forecast = f] : f \in [1 .. 4 -> WeatherTypes]})

SpecRain == InitRain /\ [][NextRain]_vars

\* a sunflower, the manual bee mode and the pesticide
NextSun ==
    \/ PlantSeed
    \/ Fertilize
    \/ Harvest
    \/ ToggleManualBees
    \/ GrowTimerFire
    \/ BeeTickFire
    \/ DyingTimerFire

InitSun == InitFrom({ScnSprout("Girassol"), ScnRipe("Girassol", "plain", FALSE)})

SpecSun == InitSun /\ [][NextSun]_vars

\* the bees over pairs of pumpkins, sunflowers and apples
NextMixed ==
    \/ BeeTickFire
    \/ BeeCommitFire
    \/ BeeNoteFire

InitMixed ==
    InitFrom(UNION {{ScnMixed(T, R) :
                       R \in SUBSET {k \in 0 .. 5 : BeeSpecies[(k \div 2) + 1] \in T}} :
                      T \in SUBSET {"Abobora", "Girassol", "Maca"}})

SpecMixed == InitMixed /\ [][NextMixed]_vars

\* the bees at work with no click of the user and no change of weather, in
\* dry weather and in rain (where the offspring grow)
NextQuiet ==
    \/ BeeTickFire
    \/ BeeCommitFire
    \/ BeeNoteFire
    \/ GrowTimerFire
    \/ SelfTimerFire

InitQuiet ==
    InitFrom({ScnQuiet(type, R, e, w) :
                 type \in {"Abobora", "Maca"}, R \in SUBSET {0, 1},
                 e \in 0 .. MaxQuiet, w \in {"sunny", "raining"}})

SpecQuiet == InitQuiet /\ [][NextQuiet]_vars

\* the same, and every pending timer fires: weak fairness WF_vars of each
\* timer action, written out, with the guard of the action for its ENABLED
\* (the gardens of these runs have an id for every offspring)
LiveQuiet ==
    /\ SpecQuiet
    /\ \/ []<>(~beeTick)
       \/ []<><<lastEvent'.kind = "beeTick">>_vars
    /\ \/ []<>(beeCommits = <<>>)
       \/ []<><<lastEvent'.kind = "beeCommit">>_vars
    /\ \/ []<>(beeNotes = <<>>)
       \/ []<><<lastEvent'.kind = "beeNote">>_vars
    /\ \/ []<>(\A k \in Plots : growTimers[k] = 0)
       \/ []<><<lastEvent'.kind = "grow">>_vars

\* the tools of the user on an empty garden, under changing weather
NextGrow ==
    \/ PlantSeed
    \/ Water
    \/ Fertilize
    \/ Harvest
    \/ ToggleManualBees
    \/ AdvanceWeather
    \/ GrowTimerFire
    \/ BeeTickFire
    \/ DyingTimerFire

InitGrow == InitFrom({ScnEmpty})

SpecGrow == InitGrow /\ [][NextGrow]_vars

\* the callback of a timer of growPlant for plot k runs in this step
GrowTimerFires(k) == lastEvent'.kind = "grow" /\ growTimers'[k] < growTimers[k]

\* the same, and every timer that growPlant has set fires: weak fairness
\* WF_vars(GrowTimerFire) for each plot, written out, with the guard
\* growTimers[k] > 0 of the action for its ENABLED (the plots of the user are
\* the only ones that hold a plant in these runs)
LiveGrow ==
    /\ SpecGrow
    /\ \A k \in UserPlots :
          \/ []<>(growTimers[k] = 0)
          \/ []<><<GrowTimerFires(k)>>_vars

-----------------------------------------------------------------------------
(* Growth timers *)

\* C3: at most one growth timer is pending for a plot at any moment, whatever
\* the order of the watering can, the rain and planting in the rain
C3_OneGrowthTimerPerPlot == \A k \in Plots : growTimers[k] <= 1

\* a seed was planted in the rain: the handler called growPlant for its plot,
\* and so did the rain logic that ran on the garden change
C3_Witness ==
    /\ lastEvent.kind = "plantSeed"
    /\ IsRaining(weather)
    /\ \E k \in UserPlots : garden[k].plant.stage = "sprout" /\ growTimers[k] = 1

-----------------------------------------------------------------------------
(* Deferred placements *)

\* a step leaves the occupant of every occupied plot in place, or removes it
KeepsOccupants ==
    \A k \in Plots :
        HasPlant(garden[k]) =>
            \/ ~HasPlant(garden'[k])
            \/ garden'[k].plant.instanceId = garden[k].plant.instanceId

ParentsIn(g, plant) ==
    \A i \in DOMAIN plant.parentIds :
        \E k \in Plots : g[k].plant.instanceId = plant.parentIds[i]

\* a step that places the offspring of a pair finds both parents in the garden
PlacesWithParents ==
    \A k \in Plots :
        (/\ ~HasPlant(garden[k])
         /\ HasPlant(garden'[k])
         /\ Len(garden'[k].plant.parentIds) = 2)
            => ParentsIn(garden, garden'[k].plant)

\* C2: a deferred commit of a pair places the offspring only if both parents
\* are still in their plots at commit time; after the harvest of a parent no
\* offspring is created
C2_CommitNeedsBothParents == [][PlacesWithParents]_vars

\* one of the two plants is among the parentIds of the other
DirectLineage(pA, pB) ==
    \/ Includes(pB.parentIds, pA.instanceId)
    \/ Includes(pA.parentIds, pB.instanceId)

\* C8: with the bees visible, a pairing of two grown apples of which one is a
\* direct parent of the other is rejected: no offspring is on its way
C8_AppleParentChildRejected ==
    \A i \in DOMAIN beeCommits :
        beeCommits[i].type = "Maca" =>
            ~DirectLineage(beeCommits[i].srcPlant, beeCommits[i].partnerPlant)

-----------------------------------------------------------------------------
(* The pumpkin that grows alone *)

\* a fallback timer of the plant inst is pending
FallbackPending(inst) == \E i \in DOMAIN selfTimers : selfTimers[i].inst = inst

\* C9: a pumpkin that has grown as the only one of its species, the bees
\* never visible, has its one fallback timer pending, or the timer has fired:
\* the self-pollination was notified and the pumpkin has reproduced
C9_LonePumpkinSelfPollinates ==
    \A k \in Plots :
        (/\ garden[k].plant.type = "Abobora"
         /\ garden[k].plant.stage = "grown"
         /\ garden[k].plant.parentIds = <<>>
         /\ beeState = "hidden")
            => \/ /\ FallbackPending(garden[k].plant.instanceId)
                  /\ Len(selfTimers) = 1
                  /\ notifications["selfAbobora"] = 0
               \/ /\ ~FallbackPending(garden[k].plant.instanceId)
                  /\ notifications["selfAbobora"] >= 1
                  /\ garden[k].plant.instanceId \in reproducedPlants

-----------------------------------------------------------------------------
(* The windy period that starts on two grown corn plants *)

\* the commit of a pairing of the current windy period has not fired yet
CommitPending == \E i \in DOMAIN cornCommits : cornCommits[i].cur

-----------------------------------------------------------------------------
(* Where the offspring of a corn pair goes *)

\* the empty plots of g next to the plot of a plant named in parentIds
EmptyNearParents(g, parentIds) ==
    {k \in EmptyPlots(g) :
        \E p \in Plots :
            /\ Includes(parentIds, g[p].plant.instanceId)
            /\ HasPlant(g[p])
            /\ Includes(NeighborSeq(p), k)}

\* a pass that pairs corns gives every pair a spot next to a parent when one
\* is empty
PairsNearParents ==
    Len(cornCommits') > Len(cornCommits) =>
        LET infos == cornCommits'[Len(cornCommits')].infos IN
        \A i \in DOMAIN infos :
            EmptyNearParents(garden, infos[i].plant.parentIds) # {} =>
                infos[i].plotId \in EmptyNearParents(garden, infos[i].plant.parentIds)

\* C11: the offspring of a corn pair is placed on a plot adjacent to one of
\* its two parents whenever such a plot is empty; another empty plot is used
\* only when no plot adjacent to a parent is empty
C11_CornOffspringNextToParent == [][PairsNearParents]_vars

-----------------------------------------------------------------------------
(* Green manure: the harvest of a bean *)

\* the click on a grown bean notes the other plots that hold a plant
ClickNotesOccupied ==
    Len(harvestTimers') > Len(harvestTimers) =>
        LET r == harvestTimers'[Len(harvestTimers')] IN
        /\ garden[r.plot].plant.type = "Feijao"
        /\ r.others = {k \in Plots : k # r.plot /\ HasPlant(garden[k])}

\* the timer of a click fertilizes the plots noted at the click, clears the
\* plot of the bean and leaves the fertilizer of every other plot alone
FertilizesNoted ==
    lastEvent'.kind = "greenManure" =>
        \E i \in DOMAIN harvestTimers :
            /\ harvestTimers' = RemoveAt(harvestTimers, i)
            /\ \A k \in Plots :
                 garden'[k].fertilizer =
                    IF k \in harvestTimers[i].others THEN "organic"
                    ELSE IF k = harvestTimers[i].plot THEN "none"
                    ELSE garden[k].fertilizer

\* C12: after the harvest of a bean and the green-manure delay, the plots
\* that receive the fertilizer flag are exactly the other plots that held a
\* plant at the moment of the harvest click; no plot that was empty at that
\* moment, nor the plot of the bean, receives it
C12_GreenManureOnPlotsOfClick == [][ClickNotesOccupied /\ FertilizesNoted]_vars

\* the green manure of a bean has fertilized a plant that stood in the
\* garden at the click, and the plot of the bean is empty without fertilizer
C12_Witness ==
    /\ lastEvent.kind = "greenManure"
    /\ garden[0] = EmptyPlot
    /\ \E k \in Plots : HasPlant(garden[k]) /\ garden[k].fertilizer = "organic"

-----------------------------------------------------------------------------
(* The bees *)

\* C13: the bee state never goes directly from Dying to Visible; every path
\* from Dying to Visible passes through Hidden
C13_NoDyingToVisible == [][~(beeState = "dying" /\ beeState' = "visible")]_vars

\* C14: every time the bee state enters Dying it next becomes Hidden, by the
\* timer of the 3500 ms delay, and exactly one environmental-harm
\* notification is added for that Dying episode, whatever happens to the
\* garden in between
C14_DyingEndsHiddenWithOneAlert ==
    [][/\ (beeState = "dying" /\ beeState' # "dying") =>
              /\ beeState' = "hidden"
              /\ notifications'["envAlert"] = notifications["envAlert"] + 1
       /\ (beeState = "dying" /\ beeState' = "dying") =>
              notifications'["envAlert"] = notifications["envAlert"]]_vars

\* a step that pairs two plants through the bees
BeePairing ==
    /\ lastEvent'.kind = "beeTick"
    /\ \/ Len(beeCommits') > Len(beeCommits)
       \/ reproducedPlants' # reproducedPlants

\* C15: no bee-mediated pollination is initiated while the bee state is
\* Hidden or Dying: the pairing logic marks plants as reproduced only in a
\* state where the bees are Visible
C15_PairingOnlyWhenVisible == [][BeePairing => beeState = "visible"]_vars

\* the bees are dying over two grown pumpkins that have not reproduced: the
\* timer of the loop is gone and no pairing is pending
C15_Witness ==
    /\ beeState = "dying"
    /\ Cardinality(seekers(Cur, "Abobora")) = 2
    /\ ~beeTick
    /\ beeCommits = <<>>

\* the species the bees pollinate
BeeTypes == {"Abobora", "Girassol", "Maca"}

\* no grown plant of the species is left to reproduce, or the one that is has
\* no other grown plant of the species beside it
NobodyToPair(type) ==
    \/ \A k \in Plots :
         (garden[k].plant.type = type /\ garden[k].plant.stage = "grown")
            => garden[k].plant.instanceId \in reproducedPlants
    \/ Cardinality({k \in Plots : /\ garden[k].plant.type = type
                                  /\ garden[k].plant.stage = "grown"}) <= 1

\* C16: a call of tryPollination for a species with no grown unreproduced
\* plant, or with such a seeker but no other grown plant of the species, is a
\* pure no-op: the set of reproduced plants, the garden, the reproduction
\* trigger and the notifications are unchanged and no timer is scheduled
C16_NoPairNoEffect ==
    \A type \in BeeTypes :
        NobodyToPair(type) =>
            tryPollination(Cur, "visible", type) = [s |-> Cur, ok |-> FALSE]

\* the loop of the visible bees has run over a lone grown plant that has not
\* reproduced, and nothing is marked or scheduled
C16_Witness ==
    /\ lastEvent.kind = "beeTick"
    /\ beeState = "visible"
    /\ beeCommits = <<>>
    /\ beeNotes = <<>>
    /\ \E k \in Plots :
         /\ garden[k].plant.stage = "grown"
         /\ garden[k].plant.type \in BeeTypes
         /\ garden[k].plant.instanceId \notin reproducedPlants
         /\ \A j \in Plots \ {k} : ~HasPlant(garden[j])

-----------------------------------------------------------------------------
(* findEmptySpot *)

\* the plots around centerId: one row and one column away at most, the
\* centre excluded
Around(centerId) ==
    {k \in Plots \ {centerId} :
        /\ (k \div size) - (centerId \div size) \in {-1, 0, 1}
        /\ (k % size) - (centerId % size) \in {-1, 0, 1}}

\* the plot the claim names for a search around centerId in garden g, or -1:
\* the scan NW, N, NE, W, E, SW, S, SE meets the neighbours in ascending id
SpotOfClaim(centerId, g) ==
    LET empty == {k \in Plots : g[k].plant.instanceId = 0}
    IN  IF Around(centerId) \cap empty # {}
        THEN CHOOSE k \in Around(centerId) \cap empty :
                 \A j \in Around(centerId) \cap empty : k <= j
        ELSE IF empty # {}
        THEN CHOOSE k \in empty : \A j \in empty : k <= j
        ELSE -1

\* the fallback of the pumpkin on plot selfTimers[1].plot puts its offspring
\* on the plot the claim names, and nowhere when that is null
PlacesOnSpotOfClaim ==
    lastEvent'.kind = "selfPollination" =>
        LET spot == SpotOfClaim(selfTimers[1].plot, garden) IN
        /\ spot # selfTimers[1].plot
        /\ \A k \in Plots :
             IF k = spot
             THEN garden'[k].plant.parentIds = <<selfTimers[1].inst>>
             ELSE garden'[k].plant = garden[k].plant

C17_WitnessFull ==
    /\ lastEvent.kind = "selfPollination"
    /\ lastEvent.placed = 0
    /\ \A k \in Plots : HasPlant(garden[k])

-----------------------------------------------------------------------------
(* The harvest *)

\* the size the claim gives to the harvest of the plant on `plot`
SizeOfClaim(plot) ==
    CASE plot.plant.isHybrid -> "large"
      [] plot.fertilizer \in {"organic", "chemical"} -> "large"
      [] plot.plant.isBoosted -> "large"
      [] plot.plant.isSmall -> "small"
      [] OTHER -> "normal"

\* a harvest click counts one more plant of the size of the claim
CountsSizeOfClaim ==
    lastEvent'.kind = "harvest" =>
        \E k \in Plots :
            /\ garden[k].plant.stage = "grown"
            /\ inventory' =
                 [inventory EXCEPT
                    ![garden[k].plant.type][SizeOfClaim(garden[k])] = @ + 1]

\* C18: the harvest size is Large whenever the plant is a hybrid, or its plot
\* carries any fertilizer flag, or the plant is boosted, even if the plant is
\* also small; otherwise it is Small when the plant is small, and otherwise
\* Normal
C18_HarvestSize == [][CountsSizeOfClaim]_vars

\* a small bean on a fertilized plot has just been harvested and counts as
\* large
C18_Witness ==
    /\ lastEvent.kind = "harvest"
    /\ garden[0].plant.type = "Feijao"
    /\ garden[0].plant.isSmall
    /\ ~garden[0].plant.isHybrid
    /\ ~garden[0].plant.isBoosted
    /\ garden[0].fertilizer # "none"
    /\ inventory["Feijao"] = [small |-> 0, normal |-> 0, large |-> 1]

-----------------------------------------------------------------------------
(* The weather *)

\* a call of advanceWeather makes the front of the queue the weather, keeps
\* the other three in their order and appends one value
ShiftsForecast ==
    lastEvent'.kind = "advanceWeather" =>
        /\ weather' = forecast[1]
        /\ \A i \in 1 .. 3 : forecast'[i] = forecast[i + 1]
        /\ forecast'[4] \in WeatherTypes

\* C19: after any number of advanceWeather calls the forecast has length 4;
\* each call sets the weather to the first element of the queue, keeps the
\* remaining three in order and appends exactly one new value at the end
C19_ForecastQueue ==
    [][Len(forecast) = 4 /\ Len(forecast') = 4 /\ ShiftsForecast]_vars

\* a call has just moved a queue of four different values by one
C19_Witness ==
    /\ lastEvent.kind = "advanceWeather"
    /\ weather = "raining_windy"
    /\ forecast = <<"sunny", "raining", "sunny_windy", "raining_windy">>

\* how many plants of type ty the inventory inv counts
CountOf(inv, ty) == inv[ty]["small"] + inv[ty]["normal"] + inv[ty]["large"]

\* a harvest click counts one plant, a grown plant that the click removes
\* from its plot or, for a bean, that it schedules for removal and that no
\* earlier click has counted
CountsPlantOnce ==
    lastEvent'.kind = "harvest" =>
        \E k \in Plots :
            /\ garden[k].plant.stage = "grown"
            /\ CountOf(inventory', garden[k].plant.type)
                   = CountOf(inventory, garden[k].plant.type) + 1
            /\ \A ty \in PlantTypes \ {garden[k].plant.type} :
                   inventory'[ty] = inventory[ty]
            /\ \/ ~HasPlant(garden'[k])
               \/ /\ garden[k].plant.type = "Feijao"
                  /\ Len(harvestTimers') = Len(harvestTimers) + 1
                  /\ harvestTimers'[Len(harvestTimers')].plot = k
                  /\ \A i \in DOMAIN harvestTimers : harvestTimers[i].plot # k

\* C20: harvesting a grown plant removes it from its plot and converts it
\* into exactly one inventory entry; over any sequence of clicks no plant
\* instance is counted in the inventory more than once
C20_EachPlantCountedOnce == [][CountsPlantOnce]_vars

\* the inventory changes only by a harvest click on a grown plant, one
\* counter by one
OnlyHarvestCounts ==
    inventory' # inventory =>
        /\ lastEvent'.kind = "harvestClick"
        /\ garden[lastEvent'.target].plant.stage = "grown"
        /\ \E sz \in {"small", "normal", "large"} :
             inventory' =
                [inventory EXCEPT ![garden[lastEvent'.target].plant.type][sz] = @ + 1]

\* a harvest click on an empty plot or on a sprout changes nothing
MissChangesNothing ==
    (/\ lastEvent'.kind = "harvestClick"
     /\ garden[lastEvent'.target].plant.stage # "grown")
        => inventory' = inventory /\ garden' = garden

\* C21: the inventory counters never decrease and change only on a harvest
\* click on a plot holding a grown plant, which increases exactly one
\* (species, size) counter by exactly 1; a click with the harvest tool on an
\* empty plot or on a sprout changes neither the inventory nor the garden
C21_InventoryOnlyGrowsByHarvest == [][OnlyHarvestCounts /\ MissChangesNothing]_vars

\* after a harvest, a click with the harvest tool has hit a sprout
C21_Witness ==
    /\ lastEvent.kind = "harvestClick"
    /\ garden[lastEvent.target].plant.stage = "sprout"
    /\ \E ty \in PlantTypes : CountOf(inventory, ty) = 1

-----------------------------------------------------------------------------
(* Manual pollination *)

\* the notifications that reject a manual pollination
Rejections == {"manualInvalidApple", "invalidTarget", "noSpace"}

\* the pollen in the sack is applied to an empty plot, to a sprout, to a
\* grown plant of another species, or while no plot is empty
PollenRejected(plotId) ==
    \/ ~HasPlant(garden[plotId])
    \/ garden[plotId].plant.stage = "sprout"
    \/ /\ garden[plotId].plant.stage = "grown"
       /\ garden[plotId].plant.type # pollenSack.plant.type
    \/ \A k \in Plots : HasPlant(garden[k])

\* a rejected application changes neither the garden nor the sack and adds
\* one rejection notification
RejectionsChangeNothing ==
    (lastEvent'.kind = "applyPollen" /\ PollenRejected(lastEvent'.target)) =>
        /\ garden' = garden
        /\ pollenSack' = pollenSack
        /\ \E n \in Rejections :
             notifications' = [notifications EXCEPT ![n] = @ + 1]

\* C22: every rejected manual pollination (pollen applied to an empty plot,
\* a sprout, or a grown plant of another species, or applied when no plot is
\* empty) leaves the garden and the held pollen unchanged and emits exactly
\* one rejection notification; no plant is created
C22_RejectedPollenChangesNothing == [][RejectionsChangeNothing]_vars

-----------------------------------------------------------------------------
(* The self-pollination fallback *)

\* the fallback timer i places an offspring only from a state where the bees
\* are not visible, the plant has not reproduced and no other grown plant of
\* its species stands in the garden
SelfOnlyWhenAlone ==
    \A i \in DOMAIN selfTimers :
        (/\ lastEvent'.kind = "selfPollination"
         /\ selfTimers' = RemoveAt(selfTimers, i)
         /\ \E k \in Plots : /\ ~HasPlant(garden[k])
                             /\ garden'[k].plant.parentIds = <<selfTimers[i].inst>>)
            => /\ beeState # "visible"
               /\ selfTimers[i].inst \notin reproducedPlants
               /\ \A k \in Plots \ {selfTimers[i].plot} :
                    ~(/\ garden[k].plant.type = selfTimers[i].type
                      /\ garden[k].plant.stage = "grown")

\* C23: when the fallback timer of a pumpkin or sunflower fires, the plant
\* self-pollinates only if, in the state at fire time, the bees are not
\* visible, the plant is not in the reproduced set and no other grown plant
\* of its species is available as a partner
C23_FallbackChecksFireTime == [][SelfOnlyWhenAlone]_vars

-----------------------------------------------------------------------------
(* Growth events *)

\* the on-growth logic has taken up the plant inst
TakenUp(timers, inst) == \E i \in DOMAIN timers : timers[i].inst = inst

\* the step in which a pumpkin, a sunflower or a bean becomes grown hands it
\* to the on-growth logic of its species: the fallback timer is armed, the
\* bean sequence is started
GrowthIsHandled ==
    \A k \in Plots :
        (garden[k].plant.stage = "sprout" /\ garden'[k].plant.stage = "grown") =>
            /\ garden'[k].plant.type \in {"Abobora", "Girassol"}
                  => TakenUp(selfTimers', garden'[k].plant.instanceId)
            /\ garden'[k].plant.type = "Feijao"
                  => TakenUp(beanTimers', garden'[k].plant.instanceId)

\* C24: every plant that becomes grown is handled by the on-growth
\* reproduction logic of its species (pumpkin/sunflower fallback timer armed,
\* bean sequence started); no growth event is lost
C24_NoGrowthEventLost == [][GrowthIsHandled]_vars

-----------------------------------------------------------------------------
(* The commit of a bee pollination *)

\* a bee commit that runs while a plot is empty places the offspring of the
\* pair on the plot findEmptySpot gives for the seeker in the garden of that
\* moment
CommitOnCurrentGarden ==
    (lastEvent'.kind = "beeCommit" /\ \E k \in Plots : ~HasPlant(garden[k])) =>
        \E i \in DOMAIN beeCommits :
            LET k == SpotOfClaim(beeCommits[i].src, garden) IN
            /\ HasPlant(garden'[k])
            /\ garden'[k].plant.parentIds =
                  <<beeCommits[i].srcPlant.instanceId,
                    beeCommits[i].partnerPlant.instanceId>>

\* C25: when a bee-pollination commit runs, the target of the offspring is
\* the nearest empty plot of the seeker in the garden as it is at that
\* moment, not in the snapshot taken at the match: if any plot is empty at
\* commit time, an offspring is placed
C25_CommitSeesCurrentGarden == [][CommitOnCurrentGarden]_vars

-----------------------------------------------------------------------------
(* One reproduction event per plant and wave *)

\* the plants of the reproduction event of this step, if there is one, have
\* taken part in no event since the reproduced set was last cleared (every
\* event puts its plants into the set)
EventOfFreshPlants ==
    /\ Len(beeCommits') > Len(beeCommits) =>
          LET c == beeCommits'[Len(beeCommits')] IN
          {c.srcPlant.instanceId, c.partnerPlant.instanceId} \cap reproducedPlants = {}
    /\ (Len(cornCommits') > Len(cornCommits) /\ IsWindy(weather)) =>
          LET infos == cornCommits'[Len(cornCommits')].infos IN
          \A i \in DOMAIN infos :
              \A j \in DOMAIN infos[i].plant.parentIds :
                  infos[i].plant.parentIds[j] \notin reproducedPlants
    /\ \A i \in DOMAIN selfTimers :
          (/\ lastEvent'.kind = "selfPollination"
           /\ lastEvent'.placed = 1
           /\ selfTimers' = RemoveAt(selfTimers, i))
              => selfTimers[i].inst \notin reproducedPlants

\* C26: between two consecutive clears of the reproduced set no plant
\* instance takes part in more than one reproduction event (bee pairing as
\* seeker or as partner, corn pairing, pumpkin/sunflower self-pollination)
C26_OneEventPerPlantAndWave == [][EventOfFreshPlants]_vars

(* The pair a bee visit forms *)

\* the plots with a grown plant of the species that has not reproduced
Unreproduced(type) ==
    {k \in Plots : /\ garden[k].plant.type = type
                   /\ garden[k].plant.stage = "grown"
                   /\ garden[k].plant.instanceId \notin reproducedPlants}

\* the plots with a grown plant of the species, other than plot k
OtherGrown(type, k) ==
    {j \in Plots \ {k} : /\ garden[j].plant.type = type
                         /\ garden[j].plant.stage = "grown"}

\* the match m pairs the lowest unreproduced plot with the lowest unreproduced
\* other plot, or with the lowest other plot when all others have reproduced
MatchOfClaim(m) ==
    /\ Unreproduced(m.type) # {}
    /\ m.src = Min(Unreproduced(m.type))
    /\ m.srcPlant = garden[m.src].plant
    /\ OtherGrown(m.type, m.src) # {}
    /\ LET fresh == OtherGrown(m.type, m.src) \cap Unreproduced(m.type)
           mate  == IF fresh # {} THEN Min(fresh)
                    ELSE Min(OtherGrown(m.type, m.src))
       IN  m.partnerPlant = garden[mate].plant

\* C27: in every bee match the seeker is the grown unreproduced plant of the
\* species on the lowest plot, the partner is another grown plant of the
\* species, an unreproduced one before a reproduced one and the lowest plot
\* first within each group, and after the match both are in the ReproducedSet
C27_SeekerAndPartnerOfMatch ==
    [][(lastEvent'.kind = "beeTick" /\ Len(beeCommits') = Len(beeCommits) + 1)
         => LET m == beeCommits'[Len(beeCommits')]
            IN  /\ MatchOfClaim(m)
                /\ reproducedPlants' = reproducedPlants
                                         \cup {m.srcPlant.instanceId,
                                               m.partnerPlant.instanceId}]_vars

\* a match just made passed over a reproduced plant on a lower plot for an
\* unreproduced partner
C27_Witness ==
    /\ lastEvent.kind = "beeTick"
    /\ beeCommits # <<>>
    /\ LET m == beeCommits[Len(beeCommits)]
       IN  \E k, kp \in Plots :
              /\ k < kp
              /\ k # m.src
              /\ garden[kp].plant = m.partnerPlant
              /\ garden[k].plant.type = m.type
              /\ garden[k].plant.stage = "grown"
              /\ garden[k].plant.instanceId \in reproducedPlants
              /\ garden[k].plant.instanceId # m.srcPlant.instanceId

(* One pass of the wind over the corn *)

\* the smaller of two numbers
Smaller(a, b) == IF a <= b THEN a ELSE b

\* the corn plants of the pairs of the pass p
PairedIn(p) == UNION {{p.infos[i].plant.parentIds[1], p.infos[i].plant.parentIds[2]} :
                        i \in DOMAIN p.infos}

\* the pass p pairs grown unreproduced corns, no corn twice, and sends the
\* offspring of its pairs to distinct empty plots
PairsOfClaim(p) ==
    /\ \A i \in DOMAIN p.infos :
          /\ p.infos[i].plant.parentIds[1] # p.infos[i].plant.parentIds[2]
          /\ \A j \in 1 .. 2 :
                \E k \in Unreproduced("Milho") :
                    garden[k].plant.instanceId = p.infos[i].plant.parentIds[j]
          /\ ~HasPlant(garden[p.infos[i].plotId])
    /\ \A i, j \in DOMAIN p.infos :
          i # j => /\ p.infos[i].plotId # p.infos[j].plotId
                   /\ {p.infos[i].plant.parentIds[1], p.infos[i].plant.parentIds[2]}
                        \cap {p.infos[j].plant.parentIds[1],
                              p.infos[j].plant.parentIds[2]} = {}

\* the pass of this step forms `pairs` pairs
PassForms(pairs) ==
    IF pairs = 0
    THEN UNCHANGED <<garden, reproducedPlants, cornCommits, nextInst, notifications>>
    ELSE /\ Len(cornCommits') = Len(cornCommits) + 1
         /\ LET p == cornCommits'[Len(cornCommits')]
            IN  /\ Len(p.infos) = pairs
                /\ PairsOfClaim(p)
                /\ reproducedPlants' = reproducedPlants \cup PairedIn(p)
         /\ garden' = garden

\* C28: a corn pollination pass over n grown unreproduced corn plants (n >= 2)
\* and e empty plots forms min(floor(n/2), e) pairs, no corn in two pairs, the
\* offspring aimed at pairwise distinct empty plots, and adds the corns of the
\* pairs, and only them, to the ReproducedSet; with n < 2 it changes nothing
C28_PairsOfOnePass ==
    [][lastEvent'.kind = "cornInterval"
         => LET n == Cardinality(Unreproduced("Milho"))
                e == Cardinality(EmptyPlots(garden))
            IN  IF n < 2 THEN PassForms(0)
                ELSE PassForms(Smaller(n \div 2, e))]_vars

\* a pass has just formed fewer pairs than the corns allow, for want of empty
\* plots, and the corns left over are still unreproduced
C28_Witness ==
    /\ lastEvent.kind = "cornInterval"
    /\ cornCommits # <<>>
    /\ Len(cornCommits[Len(cornCommits)].infos) = 1
    /\ Cardinality(EmptyPlots(garden)) = 1
    /\ Cardinality(Unreproduced("Milho")) >= 2

(* The wind coming and turning *)

\* this step is a change of the weather from a kind `from` to a kind `to`
WeatherTurns(from, to) ==
    /\ lastEvent'.kind = "advanceWeather"
    /\ weather \in from
    /\ weather' \in to

Windy == {"sunny_windy", "raining_windy"}

Calm == {"sunny", "raining"}

\* the wind that rises in this step leaves in the set only the corns of the
\* pass it starts, and with fewer than 2 grown corns it starts no pass and
\* sets off one notification
WindRises ==
    /\ IF Len(cornCommits') = Len(cornCommits) + 1
       THEN reproducedPlants' = PairedIn(cornCommits'[Len(cornCommits')])
       ELSE reproducedPlants' = {}
    /\ Cardinality({k \in Plots : /\ garden[k].plant.type = "Milho"
                                  /\ garden[k].plant.stage = "grown"}) < 2
         => /\ Len(cornCommits') = Len(cornCommits)
            /\ reproducedPlants' = {}
            /\ nextInst' = nextInst
            /\ windNotes' = windNotes + 1

\* C29: when the weather changes from non-windy to windy the ReproducedSet is
\* emptied, and with fewer than 2 grown corn plants at that moment no pairing
\* is started and the 'no corn to pollinate' notification is emitted exactly
\* once; a change between the two windy kinds neither clears the set nor
\* emits the notification
C29_WindStartClearsAndNotifiesOnce ==
    [][/\ WeatherTurns(Calm, Windy) => WindRises
       /\ WeatherTurns(Windy, Windy)
            => /\ reproducedPlants' = reproducedPlants
               /\ windNotes' = windNotes
               /\ notifications' = notifications
       /\ lastEvent'.kind = "windNote"
            => /\ windNotes' = windNotes - 1
               /\ notifications' =
                    [notifications EXCEPT !["windNoSeeds"] = @ + 1]
       /\ (lastEvent'.kind # "windNote" /\ ~WeatherTurns(Calm, Windy))
            => /\ windNotes' = windNotes
               /\ notifications'["windNoSeeds"] = notifications["windNoSeeds"]]_vars

\* the wind has just risen over a garden with a reproduced pumpkin and fewer
\* than 2 grown corns: the set is empty, its notification is on its way
C29_Witness ==
    /\ lastEvent.kind = "advanceWeather"
    /\ weather \in Windy
    /\ windNotes = 1
    /\ reproducedPlants = {}
    /\ cornCommits = <<>>
    /\ \E k \in Plots : /\ garden[k].plant.type = "Abobora"
                        /\ garden[k].plant.stage = "grown"

\* the weather has just changed under wind and the set still holds the corns
\* that reproduced before the change
C29_WitnessTurn ==
    /\ lastEvent.kind = "advanceWeather"
    /\ weather = "raining_windy"
    /\ nextInst = MaxInst
    /\ reproducedPlants # {}

(* The wind going *)

\* C30: when the weather changes from windy to non-windy the ReproducedSet is
\* emptied, and until the weather is windy again no corn pollination pass is
\* started: the interval does not fire and a corn that reaches Grown pairs
\* nothing
C30_NoPassWithoutWind ==
    [][/\ WeatherTurns(Windy, Calm) => reproducedPlants' = {}
       /\ weather' \in Calm
            => /\ lastEvent'.kind # "cornInterval"
               /\ Len(cornCommits') <= Len(cornCommits)
               /\ nextInst' = nextInst
               /\ reproducedPlants' \subseteq reproducedPlants]_vars

\* the wind has gone, and a corn has just grown next to another unreproduced
\* grown corn and an empty plot; nothing is paired
C30_Witness ==
    /\ lastEvent.kind = "grow"
    /\ weather = "sunny"
    /\ forecast[1] = "sunny_windy"
    /\ garden[size * size - 1].plant.type = "Milho"
    /\ garden[size * size - 1].plant.stage = "grown"
    /\ Cardinality(Unreproduced("Milho")) >= 2
    /\ EmptyPlots(garden) # {}
    /\ cornCommits = <<>>

(* Rain *)

\* C31: while the weather is a raining kind every plot is watered and every
\* Sprout of the garden, whether it stood there when the rain started, was
\* planted by the user in the rain or was placed as an offspring in the rain,
\* has a growth timer pending
C31_RainSchedulesEverySprout ==
    weather \in {"raining", "raining_windy"} =>
        \A k \in Plots :
            /\ garden[k].isWatered
            /\ garden[k].plant.stage = "sprout" => growTimers[k] > 0

\* an offspring has just been placed in the rain and its growth timer is
\* pending
C31_Witness ==
    /\ weather \in {"raining", "raining_windy"}
    /\ lastEvent.kind \in {"beeCommit", "selfPollination"}
    /\ lastEvent.placed > 0
    /\ garden[lastEvent.target].plant.stage = "sprout"
    /\ garden[lastEvent.target].plant.parentIds # <<>>
    /\ growTimers[lastEvent.target] > 0

Rainy == {"raining", "raining_windy"}

Dry == {"sunny", "sunny_windy"}

\* C32: when the weather changes from a raining kind to a non-raining kind,
\* isWatered becomes false on all 16 plots and nothing else in the garden
\* changes; a change between raining and raining_windy clears no watered flag
C32_RainEndDriesEveryPlot ==
    [][/\ WeatherTurns(Rainy, Dry)
            => garden' = [k \in Plots |-> [garden[k] EXCEPT !.isWatered = FALSE]]
       /\ (WeatherTurns(Rainy, Rainy) /\ weather' # weather)
            => \A k \in Plots : garden[k].isWatered => garden'[k].isWatered]_vars

\* the rain has just ended over a garden with plants: every plot is dry
C32_Witness ==
    /\ lastEvent.kind = "advanceWeather"
    /\ weather \in Dry
    /\ \A k \in Plots : ~garden[k].isWatered
    /\ \E k \in Plots : garden[k].plant.stage = "sprout" /\ growTimers[k] > 0
    /\ \E k \in Plots : garden[k].plant.stage = "grown"


(* From Sprout to Grown *)

\* the plant on plot k changes its stage in this step
Ripens(k) ==
    /\ garden[k].plant.stage = "sprout"
    /\ garden'[k].plant.stage = "grown"

\* a Sprout turns Grown only when a growth timer of its plot fires, a timer
\* is set only for a Sprout on a plot watered by the can or under rain, and no
\* Grown plant is a Sprout afterwards
GrowsOnlyByTimer ==
    \A k \in Plots :
        /\ Ripens(k) => /\ lastEvent'.kind = "grow"
                        /\ garden'[k].plant.instanceId = garden[k].plant.instanceId
                        /\ growTimers[k] > 0
                        /\ growTimers'[k] = growTimers[k] - 1
        /\ growTimers'[k] > growTimers[k]
             => /\ garden'[k].plant.stage = "sprout"
                /\ garden'[k].isWatered
                /\ \/ lastEvent'.kind = "water"
                   \/ weather' \in {"raining", "raining_windy"}
        /\ (garden[k].plant.stage = "sprout" /\ growTimers[k] = 0 /\ ~garden'[k].isWatered)
             => garden'[k].plant = garden[k].plant
        /\ garden[k].plant.stage = "grown"
             => \A j \in Plots :
                   garden'[j].plant.instanceId = garden[k].plant.instanceId
                      => garden'[j].plant.stage = "grown"

Pesticide(g) == \E k \in Plots : g[k].fertilizer = "chemical"

GrownSunflower(g) ==
    \E k \in Plots : g[k].plant.type = "Girassol" /\ g[k].plant.stage = "grown"

\* C34: the bee state becomes Visible only in a state where no plot has
\* chemical fertilizer and a grown Sunflower exists or the manual bee mode is
\* on; while any plot has chemical fertilizer, Visible bees go to Dying and
\* Hidden bees stay Hidden
C34_VisibleOnlyWithoutPesticide ==
    [][/\ (beeState # "visible" /\ beeState' = "visible")
            => /\ ~Pesticide(garden')
               /\ GrownSunflower(garden') \/ manualBeeMode'
       /\ Pesticide(garden')
            => /\ beeState = "visible" => beeState' = "dying"
               /\ beeState = "hidden" => beeState' = "hidden"
               /\ beeState' # "visible"]_vars

\* the bees have died of the pesticide and stay hidden beside a grown
\* sunflower, with the manual bee mode on
C34_Witness ==
    /\ beeState = "hidden"
    /\ Pesticide(garden)
    /\ GrownSunflower(garden)
    /\ manualBeeMode
    /\ notifications["envAlert"] > 0

(* The order of the species in a bee tick *)

\* an attempt on the species initiates a match in this state: an unreproduced
\* grown plant and another grown plant of the species exist
CanMatch(type) ==
    /\ Unreproduced(type) # {}
    /\ OtherGrown(type, Min(Unreproduced(type))) # {}

\* the species of the matches a tick initiates according to the claim
MatchesOfClaim ==
    (IF CanMatch("Abobora") THEN <<"Abobora">> ELSE <<>>)
    \o (IF CanMatch("Girassol") THEN <<"Girassol">> ELSE <<>>)
    \o (IF ~CanMatch("Abobora") /\ ~CanMatch("Girassol") /\ CanMatch("Maca")
        THEN <<"Maca">> ELSE <<>>)

\* C35: on each bee tick a Pumpkin pollination and a Sunflower pollination
\* are both attempted, in that order, and an Apple pollination is attempted
\* only if neither of the two initiated a match on that tick
C35_PumpkinSunflowerThenApple ==
    [][lastEvent'.kind = "beeTick"
         => /\ Len(beeCommits') = Len(beeCommits) + Len(MatchesOfClaim)
            /\ \A i \in 1 .. Len(MatchesOfClaim) :
                  beeCommits'[Len(beeCommits) + i].type = MatchesOfClaim[i]]_vars

\* one tick has matched the pumpkins and the sunflowers and left a pair of
\* unreproduced apples alone
C35_Witness ==
    /\ lastEvent.kind = "beeTick"
    /\ Len(beeCommits) = 2
    /\ beeCommits[1].type = "Abobora"
    /\ beeCommits[2].type = "Girassol"
    /\ Cardinality(Unreproduced("Maca")) = 2

(* The bean *)

\* the last timer of the chain of a bean fires in this step: record i
BeanSelfFires(i) ==
    /\ lastEvent'.kind = "bean"
    /\ i \in DOMAIN beanTimers
    /\ beanTimers[i].stage = "self"
    /\ Len(beanTimers') = Len(beanTimers) - 1

\* the plots that receive a plant in this step
Filled == {j \in Plots : ~HasPlant(garden[j]) /\ HasPlant(garden'[j])}

\* the bean of the record r stands on its plot and has not been harvested
BeanStands(r) ==
    /\ garden[r.plot].plant.instanceId = r.inst
    /\ \A h \in DOMAIN harvestTimers : harvestTimers[h].plot # r.plot

\* a bean that becomes grown starts its chain
BeanChainStarts ==
    \A k \in Plots :
        (/\ garden[k].plant.stage = "sprout"
         /\ garden'[k].plant.stage = "grown"
         /\ garden'[k].plant.type = "Feijao")
            => \E i \in DOMAIN beanTimers' :
                  beanTimers'[i].inst = garden'[k].plant.instanceId

\* the last timer of the chain places one normal offspring of the bean if the
\* bean stands and a plot is empty, and nothing otherwise
BeanChainEnds ==
    \A i \in DOMAIN beanTimers :
        (BeanSelfFires(i) /\ beanTimers' = RemoveAt(beanTimers, i))
            => IF BeanStands(beanTimers[i]) /\ EmptyPlots(garden) # {}
               THEN \E j \in Plots :
                       /\ Filled = {j}
                       /\ garden'[j].plant.type = "Feijao"
                       /\ garden'[j].plant.stage = "sprout"
                       /\ ~garden'[j].plant.isSmall
                       /\ ~garden'[j].plant.isHybrid
                       /\ garden'[j].plant.parentIds = <<beanTimers[i].inst>>
               ELSE Filled = {}

\* C36: a Bean that reached Grown self-pollinates after its delay chain,
\* whatever the bees, the weather and the ReproducedSet, provided its plot
\* still holds the same bean and some plot is empty; the offspring has
\* isSmall = false, isHybrid = false and parentIds = [that bean]; if the bean
\* was harvested before the timer fires, no offspring is created
C36_BeanSelfPollinates == [][BeanChainStarts /\ BeanChainEnds]_vars

(* The notifications of reproduction *)

\* the notifications of reproduction that are emitted by the step that writes
\* the offspring
ReproductionNotes ==
    {"cornHybrid", "cornInbreeding", "cornDefault", "selfAbobora",
     "selfGirassol", "beanSelf"}

\* this step emits a notification of reproduction, or (bees) books the one
\* that follows its commit after 500 ms
NotifiesReproduction ==
    \/ \E n \in ReproductionNotes : notifications'[n] > notifications[n]
    \/ Len(beeNotes') > Len(beeNotes)

\* C37: a notification of reproduction (hybrid vigor, inbreeding depression,
\* cross-pollination, corn pollination, pumpkin or sunflower self-pollination,
\* bean self-fertilisation) is emitted only when its offspring was placed in
\* the garden; when the placement is skipped there is no such notification
C37_NotifiesOnlyPlacedOffspring == [][NotifiesReproduction => Filled # {}]_vars

(* The fertilizer flag *)

\* C38: in every reachable state a plot that holds no plant has no fertilizer
\* flag: the flag is set only on occupied plots and is cleared when the plant
\* of the plot is harvested, also under the delayed green-manure effect
C38_EmptyPlotHasNoFertilizer ==
    \A k \in Plots : ~HasPlant(garden[k]) => garden[k].fertilizer = "none"

-----------------------------------------------------------------------------
(* The bee loop comes to rest *)

\* the pollinations that this step initiates
Initiated == {i \in DOMAIN beeCommits' : i > Len(beeCommits)}

\* a tick of the bee loop chooses as seekers plants that are not in the set,
\* and puts them in
SeekerIsFresh ==
    lastEvent'.kind = "beeTick" =>
        \A i \in Initiated :
            /\ beeCommits'[i].srcPlant.instanceId \notin reproducedPlants
            /\ beeCommits'[i].srcPlant.instanceId \in reproducedPlants'
            /\ \A j \in Initiated :
                  beeCommits'[j].srcPlant.instanceId
                        = beeCommits'[i].srcPlant.instanceId => j = i

\* only a tick initiates, and without a clear the set keeps what it holds
SetKeepsSeekers ==
    /\ lastEvent'.kind # "beeTick" => Initiated = {}
    /\ reproducedPlants \subseteq reproducedPlants'

\* no timer of the bee loop is pending
BeesAtRest == ~beeTick /\ beeCommits = <<>> /\ beeNotes = <<>>

C39_WitnessRain ==
    /\ BeesAtRest
    /\ EmptyPlots(garden) = {}
    /\ \E k \in Plots :
          /\ Len(garden[k].plant.parentIds) = 2
          /\ garden[k].plant.stage = "grown"
          /\ garden[k].plant.instanceId \in reproducedPlants

-----------------------------------------------------------------------------
(* determineOffspringGenetics on its own: every pair of parents *)

GenIds == 1 .. MaxGenId

\* the parentIds createPlant is given name no plant, one plant (an offspring
\* of self-pollination) or two (an offspring of a pair), all created earlier
ParentIdsOf(id) ==
    LET older == 1 .. (id - 1)
    IN  {<<>>} \cup {<<a>> : a \in older} \cup {<<a, b>> : a \in older, b \in older}

GenPlants ==
    {[createPlant(id, "Maca", ps, small, FALSE) EXCEPT !.stage = "grown"] :
        id \in GenIds, ps \in UNION {ParentIdsOf(i) : i \in GenIds}, small \in BOOLEAN}

ParentPlants == {p \in GenPlants : p.parentIds \in ParentIdsOf(p.instanceId)}

InitGenetics ==
    /\ GardenFrom({Fresh})
    /\ plantA \in ParentPlants
    /\ plantB \in ParentPlants
    /\ genetics = NoGenetics

GardenVars ==
    <<garden, nextInst, reproducedPlants, growingSprouts, growTimers, weather,
      forecast, prevWeather, beeState, manualBeeMode, beeTick, beeCommits, beeNotes,
      cornCommits, selfTimers, beanTimers, harvestTimers, windNotes,
      notifications, inventory, reproductionTrigger, pollenSack, lastEvent, windEp>>

\* the call determineOffspringGenetics(plantA, plantB)
Resolve ==
    /\ ~genetics.called
    /\ genetics' = [isInbreeding |-> determineOffspringGenetics(plantA, plantB).isInbreeding,
                    isHybrid |-> determineOffspringGenetics(plantA, plantB).isHybrid,
                    called |-> TRUE]
    /\ UNCHANGED <<plantA, plantB, GardenVars>>

\* the caller's next pair of parents
NextPair ==
    /\ genetics.called
    /\ plantA' \in ParentPlants
    /\ plantB' \in ParentPlants
    /\ genetics' = NoGenetics
    /\ UNCHANGED GardenVars

NextGenetics ==
    \/ Resolve
    \/ NextPair

SpecGenetics == InitGenetics /\ [][NextGenetics]_vars

SamePlant == plantA.instanceId = plantB.instanceId

\* isAparentOfB || isBparentOfA
ParentAndChild ==
    \/ Includes(plantB.parentIds, plantA.instanceId)
    \/ Includes(plantA.parentIds, plantB.instanceId)

\* C4: determineOffspringGenetics(A, A) returns isInbreeding = true and
\* isHybrid = false for every plant A, whatever A.isSmall
C4_SelfIsInbreeding ==
    (genetics.called /\ SamePlant) => (genetics.isInbreeding /\ ~genetics.isHybrid)

\* C5: when A is among B's parentIds or B among A's, the result is
\* isInbreeding = true, for every combination of isSmall of the two
C5_LineageIsInbreeding ==
    (genetics.called /\ ParentAndChild) => genetics.isInbreeding

\* C6: isHybrid = true is returned only if both parents have isSmall = true
\* and they are neither parent and child nor the same plant
C6_HybridOnlyIfUnrelated ==
    (genetics.called /\ genetics.isHybrid) =>
        (plantA.isSmall /\ plantB.isSmall /\ ~ParentAndChild /\ ~SamePlant)

\* C7: for two distinct plants, neither a parent of the other, both with
\* isSmall = true, the result is isHybrid = true and isInbreeding = false
C7_UnrelatedSmallIsHybrid ==
    (genetics.called /\ ~SamePlant /\ ~ParentAndChild /\ plantA.isSmall /\ plantB.isSmall)
        => (genetics.isHybrid /\ ~genetics.isInbreeding)

C7_Witness ==
    /\ genetics.called
    /\ ~SamePlant /\ ~ParentAndChild
    /\ plantA.isSmall /\ plantB.isSmall
    /\ genetics.isHybrid /\ ~genetics.isInbreeding

====
